---- MODULE Spec2Model ----
(***************************************************************************)
(* metro-due-times: the Trainer's journey segmentation (src/src/trainer.ts) *)
(* and the Predictor's leg walking (src/src/predictor.ts), with the        *)
(* location graph and the model containers they read and write.            *)
(*                                                                         *)
(* Representation.  A LocationCode is the string STATION or                *)
(* STATION_PLATFORM; it is modelled as the record [station, platform] that *)
(* parseLocation reads back from it, platform NoPlatform standing for a    *)
(* code without the _PLATFORM suffix.  A key built by joining parts with   *)
(* "->" is modelled as the sequence of its parts (the parts hold no "->"). *)
(* A FullStateKey STATE-LOCATIONCODE is the pair <<state, locationCode>>.  *)
(* A JavaScript Map whose iteration order matters is a sequence of         *)
(* [key, freq] entries in insertion order; an optional value is a sequence *)
(* of length 0 or 1.  Dates are milliseconds since the epoch.              *)
(***************************************************************************)
EXTENDS Integers, Sequences, FiniteSets, TLC

VARIABLES
    \* ---- static data
    network,                    \* network-graph.ts: location -> adjacent locations, in order
    \* ---- Trainer (one vehicle's task of trainer.ts main)
    currentJourney,             \* FullState[] of the vehicle
    allTimeDeltas,              \* TimeDeltaMap: key -> list of deltas
    pathFrequencyMatrix,        \* <<from, to>> -> ordered [key, freq] entries
    destinationFrequencyMatrix, \* <<start, current>> -> ordered [key, freq] entries
    fullState,                  \* the entry handled last (<<>>: none, or reconciling it failed)
    prevJourney,                \* currentJourney as it stood before that entry
    addedDeltas,                \* addDelta calls made while handling it: <<key, delta>>
    addedPaths,                 \* addPath calls made while handling it: <<from, to, path>>
    addedDestinations,          \* addDestinationFrequency calls: <<start, current, destination>>
    nEntries,                   \* number of history entries handled so far
    \* ---- Predictor: the models and the top-level call
    heartbeatDate,              \* heartbeatDate argument
    medianPathTimes,            \* MedianTimeDeltas: key -> median delta
    usualPaths,                 \* UsualPaths: <<from, to>> -> path
    usualDestinations,          \* UsualDestinations: <<start, current>> -> destination
    timetable,                  \* timetable argument (<<>>: null, else <<entries>>)
    args,                       \* arguments of the top-level predictNextArrivals call
    \* ---- Predictor: the running predictNextArrivals call
    pc,                         \* "idle", "call", "walk" or "done"
    initialState,               \* initialState parameter of the running call
    startingLocation,           \* startingLocation parameter (<<>>: null)
    destination,                \* destination parameter (<<>>: null)
    path,                       \* path
    idx,                        \* position of the for loop in path
    pathed,                     \* pathed
    currentStateKey,            \* currentStateKey
    bufferTime,                 \* bufferTime
    predictions,                \* predictions of the running call
    stack,                      \* the calls waiting for a chained call, outermost first
    outcome,                    \* "running", "returned" or "threw" (top-level call)
    error,                      \* the error thrown last: "none", "NoDestinationFound", "NoPathFound"
    result,                     \* the list the top-level call returned
    \* ---- a function applied on its own
    call,                       \* the function and its arguments (<<>>: none)
    returned,                   \* <<>>: not returned yet, else <<value>>
    \* ---- trainer.ts main: the vehicle-processing tasks
    history,                    \* trn -> the history entries the proxy holds for it
    tasks,                      \* trn -> the task pLimit runs for it
    mainPc                      \* "idle", "training" or "reduced"

trainerVars == <<currentJourney, allTimeDeltas, pathFrequencyMatrix,
                 destinationFrequencyMatrix, fullState, prevJourney,
                 addedDeltas, addedPaths, addedDestinations, nEntries>>

modelVars == <<heartbeatDate, medianPathTimes, usualPaths, usualDestinations, timetable, args>>

callVars == <<pc, initialState, startingLocation, destination, path, idx, pathed,
              currentStateKey, bufferTime, predictions, stack, outcome, error, result>>

predictorVars == <<modelVars, callVars>>

applyVars == <<call, returned>>

taskVars == <<history, tasks, mainPc>>

vars == <<network, trainerVars, predictorVars, applyVars, taskVars>>

-----------------------------------------------------------------------------
(* Bounds of the model *)

MaxEntries == 4     \* history entries fed to the Trainer
MaxDate == 3        \* timestamps of history entries are 1..MaxDate
MaxDepth == 3       \* chained predictNextArrivals calls below the top-level call
MaxSamples == 4     \* samples added to the accumulators before they are reduced
MaxVehicles == 6    \* vehicles of the history summary

-----------------------------------------------------------------------------
(* Locations *)

NoPlatform == 0

toLocationCode(stationCode, platform) == [station |-> stationCode, platform |-> platform]

Last(s) == s[Len(s)]

(* The adjacency document of the Trainer runs: AAA_1 - BBB_1 - CCC_1 in both
   directions, and BBB_1 - BBB_2 between the two platforms of BBB. *)
AAA_1 == toLocationCode("AAA", 1)
BBB_1 == toLocationCode("BBB", 1)
BBB_2 == toLocationCode("BBB", 2)
CCC_1 == toLocationCode("CCC", 1)

TrainerLocations == {AAA_1, BBB_1, BBB_2, CCC_1}

TrainerNetwork ==
    (AAA_1 :> <<BBB_1>>) @@ (BBB_1 :> <<AAA_1, CCC_1, BBB_2>>) @@
    (BBB_2 :> <<BBB_1>>) @@ (CCC_1 :> <<BBB_1>>)

Range(s) == {s[i] : i \in DOMAIN s}

isAdjacent(from, to) ==
    IF from \notin DOMAIN network THEN FALSE
    ELSE to \in Range(network[from])

-----------------------------------------------------------------------------
(* FullState *)

States == {"Arrived", "Departed"}

FullState(state, stationCode, platform, date) ==
    [state |-> state, stationCode |-> stationCode, platform |-> platform, date |-> date]

locationCode(fs) == toLocationCode(fs.stationCode, fs.platform)

key(fs) == <<fs.state, locationCode(fs)>>

-----------------------------------------------------------------------------
(* Accumulators *)

\* getOrSet(map, key, defaultValue) followed by a read of the value
getOrSet(map, k, defaultValue) == IF k \in DOMAIN map THEN map[k] ELSE defaultValue

\* map.set(key, value)
MapSet(map, k, v) == [x \in DOMAIN map \cup {k} |-> IF x = k THEN v ELSE map[x]]

EmptyMap == [x \in {} |-> 0]

\* IncrementFrequency writing a count that ignores the one already stored
IncrementFrequencyStale(entries, k) ==
    IF \E i \in DOMAIN entries : entries[i].key = k
    THEN [i \in DOMAIN entries |->
            IF entries[i].key = k THEN [key |-> k, freq |-> 1] ELSE entries[i]]
    ELSE Append(entries, [key |-> k, freq |-> 1])

\* frequencies.set(key, (frequencies.get(key) || 0) + 1) on an insertion-ordered Map
IncrementFrequency(entries, k) ==
    IF \E i \in DOMAIN entries : entries[i].key = k
    THEN [i \in DOMAIN entries |->
            IF entries[i].key = k
            THEN [key |-> k, freq |-> entries[i].freq + 1]
            ELSE entries[i]]
    ELSE Append(entries, [key |-> k, freq |-> 1])

addDelta(deltas, k, delta) == MapSet(deltas, k, Append(getOrSet(deltas, k, <<>>), delta))

addPath(matrix, from, to, pathKey) ==
    MapSet(matrix, <<from, to>>,
           IncrementFrequency(getOrSet(matrix, <<from, to>>, <<>>), pathKey))

addDestinationFrequency(matrix, startingLocationCode, currentLocation, dest) ==
    MapSet(matrix, <<startingLocationCode, currentLocation>>,
           IncrementFrequency(getOrSet(matrix, <<startingLocationCode, currentLocation>>, <<>>),
                              dest))

RECURSIVE ApplyDeltas(_, _)
ApplyDeltas(deltas, calls) ==
    IF calls = <<>> THEN deltas
    ELSE ApplyDeltas(addDelta(deltas, calls[1][1], calls[1][2]), Tail(calls))

RECURSIVE ApplyPaths(_, _)
ApplyPaths(matrix, calls) ==
    IF calls = <<>> THEN matrix
    ELSE ApplyPaths(addPath(matrix, calls[1][1], calls[1][2], calls[1][3]), Tail(calls))

RECURSIVE ApplyDestinations(_, _)
ApplyDestinations(matrix, calls) ==
    IF calls = <<>> THEN matrix
    ELSE ApplyDestinations(
            addDestinationFrequency(matrix, calls[1][1], calls[1][2], calls[1][3]),
            Tail(calls))

-----------------------------------------------------------------------------
(* Trainer: the body of the loop over history.extract *)

\* currentJourney.slice(i).map(locationCode).filter(collapse consecutive duplicates)
RECURSIVE Collapse(_)
Collapse(codes) ==
    IF Len(codes) <= 1 THEN codes
    ELSE LET rest == Collapse(Tail(codes))
         IN  IF codes[1] = codes[2] THEN rest ELSE <<codes[1]>> \o rest

\* journeyLocationCodes with the location of `from` kept at the front
journeyLocationCodesWithFrom(journey, i) ==
    Collapse([j \in 1..(Len(journey) - i + 1) |-> locationCode(journey[i + j - 1])])

\* lines 153-161: the collapsed locations from entry i on, without the first
journeyLocationCodes(journey, i) ==
    LET codes == Collapse([j \in 1..(Len(journey) - i + 1) |-> locationCode(journey[i + j - 1])])
    IN  IF Len(codes) > 1 THEN Tail(codes) ELSE codes

\* PathCalls with a path recorded for every earlier entry
RECURSIVE PathCallsAlways(_, _)
PathCallsAlways(journey, i) ==
    IF i >= Len(journey) THEN <<>>
    ELSE <<<<locationCode(journey[i]), Last(journey).stationCode,
             journeyLocationCodes(journey, i)>>>>
         \o PathCallsAlways(journey, i + 1)

\* the addPath calls of the Arrived analysis, for i = 1 .. Len(journey) - 1
RECURSIVE PathCalls(_, _)
PathCalls(journey, i) ==
    IF i >= Len(journey) THEN <<>>
    ELSE LET from == journey[i]
             to == Last(journey)
             codes == journeyLocationCodes(journey, i)
         IN  (IF locationCode(from) /= Last(codes)
              THEN <<<<locationCode(from), to.stationCode, codes>>>>
              ELSE <<>>)
             \o PathCalls(journey, i + 1)

\* DeltaCalls with the time delta recorded only where a path is recorded
RECURSIVE DeltaCallsGated(_, _)
DeltaCallsGated(journey, i) ==
    IF i >= Len(journey) THEN <<>>
    ELSE LET from == journey[i]
             to == Last(journey)
             codes == journeyLocationCodes(journey, i)
         IN  (IF locationCode(from) /= Last(codes)
              THEN <<<<key(from) \o codes, to.date - from.date>>>>
              ELSE <<>>)
             \o DeltaCallsGated(journey, i + 1)

\* the addDelta calls of the Arrived analysis
RECURSIVE DeltaCalls(_, _)
DeltaCalls(journey, i) ==
    IF i >= Len(journey) THEN <<>>
    ELSE LET from == journey[i]
             to == Last(journey)
         IN  <<<<key(from) \o journeyLocationCodes(journey, i), to.date - from.date>>>>
             \o DeltaCalls(journey, i + 1)

\* The terminus test never finds the station
SeenStationNever(pushed) == FALSE

\* the terminus test: some past state, other than the new one, is at its station
SeenStation(pushed) ==
    \E j \in 1..(Len(pushed) - 1) : pushed[j].stationCode = Last(pushed).stationCode

\* DestinationCalls with the turnaround point taken as the starting location
DestinationCallsFromPrev(pushed) ==
    LET prevLocationCode == locationCode(pushed[Len(pushed) - 1])
    IN  [j \in 1..Len(pushed) |->
            <<prevLocationCode, locationCode(pushed[j]), prevLocationCode>>]

\* the addDestinationFrequency calls of a terminus detection
DestinationCalls(pushed) ==
    LET prevLocationCode == locationCode(pushed[Len(pushed) - 1])
    IN  [j \in 1..Len(pushed) |->
            <<locationCode(pushed[1]), locationCode(pushed[j]), prevLocationCode>>]

\* Segment with a duplicate entry left in the journey (continue without pop)
SegmentNoPop(journey, fs) ==
    LET pushed == Append(journey, fs)
        prevEntry == Last(journey)
    IN  IF Len(pushed) < 2 THEN pushed
        ELSE IF prevEntry.date >= fs.date THEN journey
        ELSE IF locationCode(fs) = locationCode(prevEntry) THEN pushed
        ELSE IF ~isAdjacent(locationCode(prevEntry), locationCode(fs)) THEN <<>>
        ELSE IF SeenStation(pushed) THEN <<prevEntry, fs>>
        ELSE pushed

\* Segment with the out-of-order test > in place of >=
SegmentStrictOrder(journey, fs) ==
    LET pushed == Append(journey, fs)
        prevEntry == Last(journey)
    IN  IF Len(pushed) < 2 THEN pushed
        ELSE IF prevEntry.date > fs.date THEN journey
        ELSE IF locationCode(fs) = locationCode(prevEntry)
             THEN IF fs.state = prevEntry.state THEN journey ELSE pushed
        ELSE IF ~isAdjacent(locationCode(prevEntry), locationCode(fs)) THEN <<>>
        ELSE IF SeenStation(pushed) THEN <<prevEntry, fs>>
        ELSE pushed

\* Segment with a non-adjacent entry kept as the start of a new journey
SegmentRestartAtNew(journey, fs) ==
    LET pushed == Append(journey, fs)
        prevEntry == Last(journey)
    IN  IF Len(pushed) < 2 THEN pushed
        ELSE IF prevEntry.date >= fs.date THEN journey
        ELSE IF locationCode(fs) = locationCode(prevEntry)
             THEN IF fs.state = prevEntry.state THEN journey ELSE pushed
        ELSE IF ~isAdjacent(locationCode(prevEntry), locationCode(fs)) THEN <<fs>>
        ELSE IF SeenStation(pushed) THEN <<prevEntry, fs>>
        ELSE pushed

\* Segment without the out-of-order test
SegmentAnyOrder(journey, fs) ==
    LET pushed == Append(journey, fs)
        prevEntry == Last(journey)
    IN  IF Len(pushed) < 2 THEN pushed
        ELSE IF locationCode(fs) = locationCode(prevEntry)
             THEN IF fs.state = prevEntry.state THEN journey ELSE pushed
        ELSE IF ~isAdjacent(locationCode(prevEntry), locationCode(fs)) THEN <<>>
        ELSE IF SeenStation(pushed) THEN <<prevEntry, fs>>
        ELSE pushed

\* Segment without the adjacency test
SegmentNoAdjacency(journey, fs) ==
    LET pushed == Append(journey, fs)
        prevEntry == Last(journey)
    IN  IF Len(pushed) < 2 THEN pushed
        ELSE IF prevEntry.date >= fs.date THEN journey
        ELSE IF locationCode(fs) = locationCode(prevEntry)
             THEN IF fs.state = prevEntry.state THEN journey ELSE pushed
        ELSE IF SeenStation(pushed) THEN <<prevEntry, fs>>
        ELSE pushed

\* The journey after the segmentation branches (lines 111-147)
Segment(journey, fs) ==
    LET pushed == Append(journey, fs)
        prevEntry == Last(journey)
    IN  IF Len(pushed) < 2 THEN pushed
        ELSE IF prevEntry.date >= fs.date THEN journey
        ELSE IF locationCode(fs) = locationCode(prevEntry)
             THEN IF fs.state = prevEntry.state THEN journey ELSE pushed
        ELSE IF ~isAdjacent(locationCode(prevEntry), locationCode(fs)) THEN <<>>
        ELSE IF SeenStation(pushed) THEN <<prevEntry, fs>>
        ELSE pushed

\* Skipped with a repeated state and location not treated as a duplicate
SkippedOutOfOrderOnly(journey, fs) ==
    /\ Len(journey) >= 1
    /\ Last(journey).date >= fs.date

\* Whether the handler leaves the loop body early (continue) for this entry
Skipped(journey, fs) ==
    /\ Len(journey) >= 1
    /\ \/ Last(journey).date >= fs.date
       \/ /\ locationCode(fs) = locationCode(Last(journey))
          /\ fs.state = Last(journey).state

\* Whether the terminus branch (lines 131-147) is taken
Terminus(journey, fs) ==
    /\ Len(journey) >= 1
    /\ ~Skipped(journey, fs)
    /\ locationCode(fs) /= locationCode(Last(journey))
    /\ isAdjacent(locationCode(Last(journey)), locationCode(fs))
    /\ SeenStation(Append(journey, fs))

\* Whether the Arrived analysis (lines 148-178) runs
Analysed(journey, fs) ==
    /\ Len(journey) >= 1
    /\ ~Skipped(journey, fs)
    /\ fs.state = "Arrived"

HandleEntry(fs) ==
    LET journey == Segment(currentJourney, fs)
        dests == IF Terminus(currentJourney, fs)
                 THEN DestinationCalls(Append(currentJourney, fs)) ELSE <<>>
        paths == IF Analysed(currentJourney, fs) THEN PathCalls(journey, 1) ELSE <<>>
        deltas == IF Analysed(currentJourney, fs) THEN DeltaCalls(journey, 1) ELSE <<>>
    IN  /\ nEntries < MaxEntries
        /\ nEntries' = nEntries + 1
        /\ fullState' = <<fs>>
        /\ prevJourney' = currentJourney
        /\ currentJourney' = journey
        /\ addedDestinations' = dests
        /\ addedPaths' = paths
        /\ addedDeltas' = deltas
        /\ destinationFrequencyMatrix' = ApplyDestinations(destinationFrequencyMatrix, dests)
        /\ pathFrequencyMatrix' = ApplyPaths(pathFrequencyMatrix, paths)
        /\ allTimeDeltas' = ApplyDeltas(allTimeDeltas, deltas)
        /\ UNCHANGED <<network, predictorVars, applyVars, taskVars>>

\* A history entry that FullState.fromActiveTrainHistoryStatus reconciles
ProcessEntry ==
    \E state \in States, loc \in TrainerLocations, date \in 1..MaxDate :
        HandleEntry(FullState(state, loc.station, loc.platform, date))

\* A history entry whose station getStationCode does not recognise (lines 105-109)
ProcessUnrecognised ==
    /\ nEntries < MaxEntries
    /\ nEntries' = nEntries + 1
    /\ fullState' = <<>>
    /\ prevJourney' = currentJourney
    /\ currentJourney' = <<>>
    /\ addedDestinations' = <<>>
    /\ addedPaths' = <<>>
    /\ addedDeltas' = <<>>
    /\ UNCHANGED <<allTimeDeltas, pathFrequencyMatrix, destinationFrequencyMatrix,
                   network, predictorVars, applyVars, taskVars>>

\* no function is applied on its own
ApplyIdle == call = <<>> /\ returned = <<>>

\* main is not running
MainIdle == history = <<>> /\ tasks = <<>> /\ mainPc = "idle"

\* No Predictor is constructed in a training run
PredictorIdle ==
    /\ heartbeatDate = 0
    /\ medianPathTimes = EmptyMap
    /\ usualPaths = EmptyMap
    /\ usualDestinations = EmptyMap
    /\ timetable = <<>>
    /\ args = <<>>
    /\ pc = "idle"
    /\ initialState = <<>>
    /\ startingLocation = <<>>
    /\ destination = <<>>
    /\ path = <<>>
    /\ idx = 0
    /\ pathed = <<>>
    /\ currentStateKey = <<>>
    /\ bufferTime = 0
    /\ predictions = <<>>
    /\ stack = <<>>
    /\ outcome = "running"
    /\ error = "none"
    /\ result = <<>>

TrainerInit ==
    /\ PredictorIdle
    /\ ApplyIdle
    /\ MainIdle
    /\ network = TrainerNetwork
    /\ currentJourney = <<>>
    /\ allTimeDeltas = EmptyMap
    /\ pathFrequencyMatrix = EmptyMap
    /\ destinationFrequencyMatrix = EmptyMap
    /\ fullState = <<>>
    /\ prevJourney = <<>>
    /\ addedDeltas = <<>>
    /\ addedPaths = <<>>
    /\ addedDestinations = <<>>
    /\ nEntries = 0

TrainerNext == ProcessEntry \/ ProcessUnrecognised

SpecTrainer == TrainerInit /\ [][TrainerNext]_vars

-----------------------------------------------------------------------------
(* utils.ts: location equivalence and time of day *)

IGNORE_PLATFORM_STATIONS == {"APT", "SHL", "SJM", "SSS", "PJC"}

MONUMENT_STATION_CODES == {"MMT", "MTS", "MTW", "MTN", "MTE"}

\* A location code that names a station only
Station(stationCode) == toLocationCode(stationCode, NoPlatform)

parseLocation(location) == [station |-> location.station, platform |-> location.platform]

\* locationsMatch with the Monument rule applied to the first location only
locationsMatchFromMonument(location1, location2) ==
    LET parsedLocation1 == parseLocation(location1)
        parsedLocation2 == parseLocation(location2)
    IN  IF location1 = location2 THEN TRUE
        ELSE IF /\ parsedLocation1.platform /= NoPlatform
                /\ parsedLocation2.platform /= NoPlatform
                /\ parsedLocation1.platform /= parsedLocation2.platform
                /\ parsedLocation1.station \notin IGNORE_PLATFORM_STATIONS
             THEN FALSE
        ELSE IF parsedLocation1.station = parsedLocation2.station THEN TRUE
        ELSE parsedLocation1.station \in MONUMENT_STATION_CODES

locationsMatch(location1, location2) ==
    LET parsedLocation1 == parseLocation(location1)
        parsedLocation2 == parseLocation(location2)
    IN  IF location1 = location2 THEN TRUE
        ELSE IF /\ parsedLocation1.platform /= NoPlatform
                /\ parsedLocation2.platform /= NoPlatform
                /\ parsedLocation1.platform /= parsedLocation2.platform
                /\ parsedLocation1.station \notin IGNORE_PLATFORM_STATIONS
             THEN FALSE
        ELSE IF parsedLocation1.station = parsedLocation2.station THEN TRUE
        ELSE /\ parsedLocation1.station \in MONUMENT_STATION_CODES
             /\ parsedLocation2.station \in MONUMENT_STATION_CODES

\* getHours() * 3600 + getMinutes() * 60 + getSeconds(), the local zone being UTC
toSecondsSinceMidnight(date) == (date \div 1000) % (24 * 3600)

Abs(x) == IF x < 0 THEN -x ELSE x

-----------------------------------------------------------------------------
(* network-graph.ts: shortestPath *)

\* The walk back through predecessors that also takes `from`
RECURSIVE PathToWithFrom(_, _, _)
PathToWithFrom(predecessors, from, step) ==
    (IF step /= from /\ step \in DOMAIN predecessors
     THEN PathToWithFrom(predecessors, from, predecessors[step])
     ELSE <<>>)
    \o <<step>>

\* while (step && step !== from) { path.unshift(step); step = predecessors[step]; }
RECURSIVE PathTo(_, _, _)
PathTo(predecessors, from, step) ==
    IF step = from THEN <<>>
    ELSE (IF step \in DOMAIN predecessors
          THEN PathTo(predecessors, from, predecessors[step])
          ELSE <<>>)
         \o <<step>>

\* for (const neighbor of neighbors), from the i-th neighbour on
RECURSIVE VisitNeighbors(_, _, _, _, _, _, _, _)
VisitNeighbors(from, to, current, neighbors, i, queue, visited, predecessors) ==
    IF i > Len(neighbors)
    THEN [found |-> FALSE, route |-> <<>>, queue |-> queue, visited |-> visited,
          predecessors |-> predecessors]
    ELSE LET neighbor == neighbors[i] IN
         IF neighbor \in visited
         THEN VisitNeighbors(from, to, current, neighbors, i + 1, queue, visited, predecessors)
         ELSE LET predecessors2 == MapSet(predecessors, neighbor, current) IN
              IF locationsMatch(neighbor, to)
              THEN [found |-> TRUE, route |-> PathTo(predecessors2, from, neighbor),
                    queue |-> queue, visited |-> visited \cup {neighbor},
                    predecessors |-> predecessors2]
              ELSE VisitNeighbors(from, to, current, neighbors, i + 1,
                                  Append(queue, neighbor), visited \cup {neighbor},
                                  predecessors2)

\* while (queue.length > 0)
RECURSIVE Search(_, _, _, _, _)
Search(from, to, queue, visited, predecessors) ==
    IF queue = <<>> THEN <<>>
    ELSE LET current == Head(queue)
             neighbors == IF current \in DOMAIN network THEN network[current] ELSE <<>>
             visit == {VisitNeighbors(from, to, current, neighbors, 1, Tail(queue), visited,
                                      predecessors)}
         IN  \* the visit of `current` is computed once, r being its outcome
             CHOOSE route \in { IF r.found THEN <<r.route>>
                                ELSE Search(from, to, r.queue, r.visited, r.predecessors) :
                                r \in visit } : TRUE

\* shortestPath with the start tested for a match before the search
shortestPathMatchingStart(from, to) ==
    IF locationsMatch(from, to) THEN <<<<>>>>
    ELSE Search(from, to, <<from>>, {from}, EmptyMap)

\* <<>>: null (no path found), else <<path>>
shortestPath(from, to) == Search(from, to, <<from>>, {from}, EmptyMap)

-----------------------------------------------------------------------------
(* predictor.ts: Predictor.predictNextArrivals *)

PREDICTION_WINDOW == 2 * 60 * 60 * 1000

TIMETABLE_THRESHOLD == 15 * 60

\* if (destination === "MTN") destination = "MTS"; else if (destination === "MTE") ...
Canonical(stationCode) ==
    IF stationCode = "MTN" THEN "MTS"
    ELSE IF stationCode = "MTE" THEN "MTW"
    ELSE stationCode

\* for (const entry of timetable), from the i-th entry on; dest is <<>> or <<destination>>
RECURSIVE TimetableScan(_, _, _, _, _, _, _)
TimetableScan(entries, i, useArrival, secondsSinceMidnight, initialLocation, smallestTimeDiff, dest) ==
    IF i > Len(entries) THEN dest
    ELSE LET entry == entries[i] IN
         IF entry.departureTime /= <<>> /\ locationsMatch(entry.location, initialLocation)
         THEN LET entryTime ==
                      IF /\ useArrival
                         /\ entry.arrivalTime /= <<>>
                         /\ entry.arrivalTime[1] /= 0
                      THEN entry.arrivalTime[1]
                      ELSE entry.departureTime[1]
                  timeDiff == Abs(entryTime - secondsSinceMidnight)
              IN  IF timeDiff < smallestTimeDiff
                  THEN TimetableScan(entries, i + 1, useArrival, secondsSinceMidnight,
                         initialLocation, timeDiff,
                         <<Station(Canonical(parseLocation(entry.destination).station))>>)
                  ELSE TimetableScan(entries, i + 1, useArrival, secondsSinceMidnight,
                         initialLocation, smallestTimeDiff, dest)
         ELSE TimetableScan(entries, i + 1, useArrival, secondsSinceMidnight,
                            initialLocation, smallestTimeDiff, dest)

\* lines 45-62: the destination of the nearest timetable entry, <<>> when none
TimetableDestination(fs) ==
    IF timetable = <<>> THEN <<>>
    ELSE TimetableScan(timetable[1], 1,
                       fs.state = "Approaching" \/ fs.state = "Arrived",
                       toSecondsSinceMidnight(fs.date), locationCode(fs),
                       TIMETABLE_THRESHOLD, <<>>)

getUsualDestination(startingLocationCode, currentLocation) ==
    IF <<startingLocationCode, currentLocation>> \in DOMAIN usualDestinations
    THEN <<usualDestinations[<<startingLocationCode, currentLocation>>]>>
    ELSE <<>>

\* ResolveDestination with UsualDestinations consulted before the timetable
ResolveDestinationUsualFirst(fs, startingLocationCode, dest) ==
    IF dest /= <<>> THEN dest
    ELSE IF getUsualDestination(startingLocationCode, locationCode(fs)) /= <<>>
         THEN getUsualDestination(startingLocationCode, locationCode(fs))
    ELSE TimetableDestination(fs)

\* lines 44-65: <<>> when no destination is found
ResolveDestination(fs, startingLocationCode, dest) ==
    IF dest /= <<>> THEN dest
    ELSE IF TimetableDestination(fs) /= <<>> THEN TimetableDestination(fs)
    ELSE getUsualDestination(startingLocationCode, locationCode(fs))

\* getUsualPathKey(from, to)?.split('->')
getUsualPath(from, to) ==
    IF <<from, to>> \in DOMAIN usualPaths THEN <<usualPaths[<<from, to>>]>> ELSE <<>>

\* ResolvePath with the graph search preferred to the usual path
ResolvePathShortestFirst(initialLocation, dest) ==
    IF shortestPath(initialLocation, dest) /= <<>> THEN shortestPath(initialLocation, dest)
    ELSE getUsualPath(initialLocation, dest)

\* line 71: getUsualPath(initialLocation, destination) || shortestPath(...)
ResolvePath(initialLocation, dest) ==
    IF getUsualPath(initialLocation, dest) /= <<>> THEN getUsualPath(initialLocation, dest)
    ELSE shortestPath(initialLocation, dest)

\* Fallback with the oldest pathed location tried first
FallbackOldestFirst(done, i, nextLocation) ==
    LET keyAt(j) == <<"Arrived", done[j]>> \o SubSeq(done, j + 1, Len(done)) \o <<nextLocation>>
        hits == { j \in 1..i : keyAt(j) \in DOMAIN medianPathTimes }
    IN  IF hits = {} THEN [found |-> FALSE, delta |-> 0, stateKey |-> <<>>]
        ELSE LET j == CHOOSE h \in hits : \A other \in hits : h <= other
             IN  [found |-> TRUE, delta |-> medianPathTimes[keyAt(j)],
                  stateKey |-> <<"Arrived", done[j]>>]

\* lines 82-88: the already pathed locations, most recent first
RECURSIVE Fallback(_, _, _)
Fallback(done, i, nextLocation) ==
    IF i < 1 THEN [found |-> FALSE, delta |-> 0, stateKey |-> <<>>]
    ELSE LET stateKey == <<"Arrived", done[i]>>
             k == stateKey \o SubSeq(done, i + 1, Len(done)) \o <<nextLocation>>
         IN  IF k \in DOMAIN medianPathTimes
             THEN [found |-> TRUE, delta |-> medianPathTimes[k], stateKey |-> stateKey]
             ELSE Fallback(done, i - 1, nextLocation)

\* lines 79-90: the median delta of the next leg and the state key it was found under
LookupDelta(stateKey, done, nextLocation) ==
    LET k == stateKey \o done \o <<nextLocation>>
    IN  IF k \in DOMAIN medianPathTimes
        THEN [found |-> TRUE, delta |-> medianPathTimes[k], stateKey |-> stateKey]
        ELSE Fallback(done, Len(done), nextLocation)

\* Clamp without the heartbeat test
ClampNever(time) == time

\* lines 92-95: a time before the heartbeat becomes the heartbeat
Clamp(time) == IF time < heartbeatDate THEN heartbeatDate ELSE time

\* The prediction window is not tested
ExceedsWindowNever(time) == FALSE

\* The window test with the boundary inside the cut
ExceedsWindowInclusive(time) == time - heartbeatDate >= PREDICTION_WINDOW

\* line 96
ExceedsWindow(time) == time - heartbeatDate > PREDICTION_WINDOW

\* the predictions of the waiting calls, outermost first
RECURSIVE Flatten(_)
Flatten(frames) ==
    IF frames = <<>> THEN <<>> ELSE frames[1].predictions \o Flatten(Tail(frames))

\* The chained call's state with the state of the call that chains
ChainedStateKeepsState(fs, route, preds) ==
    FullState(fs.state, parseLocation(Last(route)).station,
              parseLocation(Last(route)).platform, Last(preds).time)

\* lines 106-117: the state the chained call starts from
ChainedState(fs, route, preds) ==
    FullState("Arrived", parseLocation(Last(route)).station,
              parseLocation(Last(route)).platform, Last(preds).time)

\* No try around the chained call
CaughtNever == FALSE

\* lines 108-125: an error thrown by a chained call is caught by the call that chained
Caught == stack /= <<>>

\* return predictions, through every waiting call's predictions.push(...)
Return ==
    /\ pc' = "done"
    /\ outcome' = "returned"
    /\ result' = Flatten(stack) \o predictions

\* throw new Error(...): the top-level call throws, a chained call's error is swallowed
Throw(name) ==
    /\ pc' = "done"
    /\ error' = name
    /\ IF Caught
       THEN outcome' = "returned" /\ result' = Flatten(stack)
       ELSE outcome' = "threw" /\ result' = <<>>

StartingLocation == IF startingLocation = <<>> THEN locationCode(initialState)
                    ELSE startingLocation[1]

\* lines 39-77: destination and path found
Resolve ==
    /\ pc = "call"
    /\ LET dest == ResolveDestination(initialState, StartingLocation, destination) IN
       /\ dest /= <<>>
       /\ LET route == ResolvePath(locationCode(initialState), dest[1]) IN
          /\ route /= <<>>
          /\ path' = route[1]
       /\ destination' = dest
    /\ startingLocation' = <<StartingLocation>>
    /\ pc' = "walk"
    /\ idx' = 1
    /\ pathed' = <<>>
    /\ currentStateKey' = key(initialState)
    /\ bufferTime' = 0
    /\ predictions' = <<>>
    /\ UNCHANGED <<initialState, stack, outcome, error, result>>
    /\ UNCHANGED <<network, trainerVars, modelVars, applyVars, taskVars>>

\* lines 66-68
NoDestination ==
    /\ pc = "call"
    /\ ResolveDestination(initialState, StartingLocation, destination) = <<>>
    /\ Throw("NoDestinationFound")
    /\ startingLocation' = <<StartingLocation>>
    /\ UNCHANGED <<initialState, destination, path, idx, pathed, currentStateKey,
                   bufferTime, predictions, stack>>
    /\ UNCHANGED <<network, trainerVars, modelVars, applyVars, taskVars>>

\* line 72
NoPath ==
    /\ pc = "call"
    /\ LET dest == ResolveDestination(initialState, StartingLocation, destination) IN
       /\ dest /= <<>>
       /\ ResolvePath(locationCode(initialState), dest[1]) = <<>>
       /\ destination' = dest
    /\ Throw("NoPathFound")
    /\ startingLocation' = <<StartingLocation>>
    /\ UNCHANGED <<initialState, path, idx, pathed, currentStateKey,
                   bufferTime, predictions, stack>>
    /\ UNCHANGED <<network, trainerVars, modelVars, applyVars, taskVars>>

Walking == pc = "walk" /\ idx <= Len(path)

NextDelta == LookupDelta(currentStateKey, pathed, path[idx])

\* line 91, before the clamp
ProjectedTime == initialState.date + bufferTime + NextDelta.delta

\* bufferTime left as it is by a clamped leg
NextBufferUnchanged == bufferTime

\* line 93: the clamping difference is added to bufferTime
NextBuffer ==
    IF ProjectedTime < heartbeatDate
    THEN bufferTime + (heartbeatDate - ProjectedTime)
    ELSE bufferTime

\* lines 78-104: one leg of the path is predicted
WalkLeg ==
    /\ Walking
    /\ NextDelta.found
    /\ ~ExceedsWindow(Clamp(ProjectedTime))
    /\ bufferTime' = NextBuffer
    /\ currentStateKey' = NextDelta.stateKey
    /\ pathed' = Append(pathed, path[idx])
    /\ predictions' = Append(predictions,
                             [locationCode |-> path[idx], time |-> Clamp(ProjectedTime)])
    /\ idx' = idx + 1
    /\ UNCHANGED <<pc, initialState, startingLocation, destination, path, stack,
                   outcome, error, result>>
    /\ UNCHANGED <<network, trainerVars, modelVars, applyVars, taskVars>>

\* line 89: no median delta at any fallback level
StopNoDelta ==
    /\ Walking
    /\ ~NextDelta.found
    /\ Return
    /\ UNCHANGED <<initialState, startingLocation, destination, path, idx, pathed,
                   currentStateKey, bufferTime, predictions, stack, error>>
    /\ UNCHANGED <<network, trainerVars, modelVars, applyVars, taskVars>>

\* lines 96-98: the prediction window is exceeded
StopWindow ==
    /\ Walking
    /\ NextDelta.found
    /\ ExceedsWindow(Clamp(ProjectedTime))
    /\ Return
    /\ UNCHANGED <<initialState, startingLocation, destination, path, idx, pathed,
                   currentStateKey, bufferTime, predictions, stack, error>>
    /\ UNCHANGED <<network, trainerVars, modelVars, applyVars, taskVars>>

\* lines 106-122: the path is exhausted, the call chains the next leg
Chain ==
    /\ pc = "walk"
    /\ idx > Len(path)
    /\ Len(stack) < MaxDepth
    /\ stack' = Append(stack, [initialState |-> initialState,
                               startingLocation |-> startingLocation,
                               destination |-> destination,
                               path |-> path,
                               predictions |-> predictions])
    /\ initialState' = ChainedState(initialState, path, predictions)
    /\ startingLocation' = <<Last(path)>>
    /\ destination' = <<>>
    /\ pc' = "call"
    /\ path' = <<>>
    /\ idx' = 0
    /\ pathed' = <<>>
    /\ currentStateKey' = <<>>
    /\ bufferTime' = 0
    /\ predictions' = <<>>
    /\ UNCHANGED <<outcome, error, result>>
    /\ UNCHANGED <<network, trainerVars, modelVars, applyVars, taskVars>>

PredictorNext ==
    \/ Resolve
    \/ NoDestination
    \/ NoPath
    \/ WalkLeg
    \/ StopNoDelta
    \/ StopWindow
    \/ Chain

-----------------------------------------------------------------------------
(* Prediction runs: the models and the arguments of the top-level call *)

Hour == 60 * 60 * 1000

\* the heartbeat: 10:00:00 on the day of the epoch
TenOClock == 10 * Hour

MTS_1 == toLocationCode("MTS", 1)

(* The adjacency document of the prediction runs: AAA_1 leads to BBB_1 and
   BBB_2, both lead to MTS_1, and BBB_1 - MTS_1 and BBB_1 - AAA_1 lead back. *)
PredictorNetwork ==
    (AAA_1 :> <<BBB_1, BBB_2>>) @@ (BBB_1 :> <<MTS_1, AAA_1>>) @@
    (BBB_2 :> <<MTS_1>>) @@ (MTS_1 :> <<BBB_1>>)

\* every map that gives some of the keys a value of the set
PartialMaps(keys, values) == UNION {[K -> values] : K \in SUBSET keys}

\* no training run is in progress
TrainerIdle ==
    /\ currentJourney = <<>>
    /\ allTimeDeltas = EmptyMap
    /\ pathFrequencyMatrix = EmptyMap
    /\ destinationFrequencyMatrix = EmptyMap
    /\ fullState = <<>>
    /\ prevJourney = <<>>
    /\ addedDeltas = <<>>
    /\ addedPaths = <<>>
    /\ addedDestinations = <<>>
    /\ nEntries = 0

\* predictor.predictNextArrivals(...) is entered with the arguments args
CallInit ==
    /\ pc = "call"
    /\ initialState = args.initialState
    /\ startingLocation = args.startingLocation
    /\ destination = args.destination
    /\ path = <<>>
    /\ idx = 0
    /\ pathed = <<>>
    /\ currentStateKey = <<>>
    /\ bufferTime = 0
    /\ predictions = <<>>
    /\ stack = <<>>
    /\ outcome = "running"
    /\ error = "none"
    /\ result = <<>>

(* Walking runs: a train that departed AAA_1 at or one hour before the
   heartbeat, bound for Monument; any median deltas on the keys of the route
   and of the turn back at MTS_1 and BBB_1. *)
WalkKeys ==
    { <<"Departed", AAA_1, BBB_1>>, <<"Departed", AAA_1, BBB_1, MTS_1>>,
      <<"Arrived", BBB_1, MTS_1>>, <<"Arrived", MTS_1, BBB_1>> }

WalkDeltas == {-Hour, 0, Hour, PREDICTION_WINDOW, PREDICTION_WINDOW + 1}

WalkDestinations ==
    { d1 @@ d2 :
        d1 \in PartialMaps({<<MTS_1, MTS_1>>}, {BBB_1, CCC_1}),
        d2 \in PartialMaps({<<BBB_1, BBB_1>>}, {MTS_1}) }

WalkInit ==
    /\ TrainerIdle
    /\ ApplyIdle
    /\ MainIdle
    /\ network = PredictorNetwork
    /\ heartbeatDate = TenOClock
    /\ medianPathTimes \in PartialMaps(WalkKeys, WalkDeltas)
    /\ usualPaths = EmptyMap
    /\ usualDestinations \in WalkDestinations
    /\ timetable = <<>>
    /\ \E date \in {TenOClock - Hour, TenOClock} :
          args = [initialState |-> FullState("Departed", "AAA", 1, date),
                  startingLocation |-> <<>>,
                  destination |-> <<Station("MTS")>>]
    /\ CallInit

SpecWalk == WalkInit /\ [][PredictorNext]_vars

(* Resolution runs: a train seen at AAA_1 at the heartbeat, with or without an
   explicit destination, a starting location, a timetable, usual destinations
   and a usual path that differs from the graph's shortest path. *)
TenOClockSeconds == 10 * 3600

Entry(location, dest, arrivalTime, departureTime) ==
    [location |-> location, destination |-> dest,
     arrivalTime |-> arrivalTime, departureTime |-> departureTime]

ResolveEntries ==
    { Entry(AAA_1, toLocationCode("MTN", 1),
            <<TenOClockSeconds - 100>>, <<TenOClockSeconds + 500>>),
      Entry(AAA_1, CCC_1, <<>>, <<TenOClockSeconds + 300>>),
      Entry(AAA_1, BBB_1, <<0>>, <<TenOClockSeconds - TIMETABLE_THRESHOLD + 1>>),
      Entry(AAA_1, BBB_2, <<TenOClockSeconds>>, <<>>),
      Entry(BBB_1, CCC_1, <<TenOClockSeconds>>, <<TenOClockSeconds>>),
      Entry(AAA_1, toLocationCode("MTE", 1), <<>>, <<TenOClockSeconds + TIMETABLE_THRESHOLD>>) }

\* null, the empty timetable, and the timetables of one or two entries
ResolveTimetables ==
    {<<>>, << <<>> >>}
    \cup { << <<e>> >> : e \in ResolveEntries }
    \cup { << <<e1, e2>> >> : e1 \in ResolveEntries, e2 \in ResolveEntries }

ResolveMedians ==
    [k \in { <<"Arrived", AAA_1, BBB_1>>, <<"Departed", AAA_1, BBB_1>> } |-> Hour]
    @@ [k \in { <<"Arrived", AAA_1, BBB_1, MTS_1>>, <<"Departed", AAA_1, BBB_1, MTS_1>> }
            |-> PREDICTION_WINDOW]
    @@ (<<"Arrived", BBB_1, MTS_1>> :> Hour)
    @@ (<<"Arrived", MTS_1, BBB_1>> :> PREDICTION_WINDOW + 1)

ResolveDestinations ==
    { d1 @@ d2 @@ (<<MTS_1, MTS_1>> :> BBB_1) :
        d1 \in PartialMaps({<<AAA_1, AAA_1>>}, {MTS_1}),
        d2 \in PartialMaps({<<BBB_1, AAA_1>>}, {BBB_1}) }

ResolvePaths ==
    PartialMaps({<<AAA_1, Station("MTS")>>, <<AAA_1, MTS_1>>}, {<<BBB_2, MTS_1>>})

ResolveInit ==
    /\ TrainerIdle
    /\ ApplyIdle
    /\ MainIdle
    /\ network = PredictorNetwork
    /\ heartbeatDate = TenOClock
    /\ medianPathTimes = ResolveMedians
    /\ usualPaths \in ResolvePaths
    /\ usualDestinations \in ResolveDestinations
    /\ timetable \in ResolveTimetables
    /\ \E state \in States, start \in {<<>>, <<BBB_1>>},
          dest \in {<<>>, <<Station("MTS")>>} :
          args = [initialState |-> FullState(state, "AAA", 1, TenOClock),
                  startingLocation |-> start,
                  destination |-> dest]
    /\ CallInit

SpecResolve == ResolveInit /\ [][PredictorNext]_vars


-----------------------------------------------------------------------------
(* shortestPath called on its own, over every adjacency document of four
   locations without self-loops *)

MTN_1 == toLocationCode("MTN", 1)

MTS_2 == toLocationCode("MTS", 2)

GraphLocations == {AAA_1, BBB_1, CCC_1, MTS_1}

\* the order in which the document lists locations
GraphOrder == <<AAA_1, BBB_1, CCC_1, MTS_1>>

\* the list of the locations of a set, in document order
Listed(locations) == SelectSeq(GraphOrder, LAMBDA l : l \in locations)

GraphNetworks ==
    { [l \in GraphLocations |-> Listed(f[l])] :
        f \in { g \in [GraphLocations -> SUBSET GraphLocations] :
                  \A l \in GraphLocations : l \notin g[l] } }

\* the chain AAA_1 - BBB_1 - CCC_1 - MTS_1
ChainNetwork ==
    (AAA_1 :> <<BBB_1>>) @@ (BBB_1 :> <<AAA_1, CCC_1>>) @@
    (CCC_1 :> <<BBB_1, MTS_1>>) @@ (MTS_1 :> <<CCC_1>>)

GraphFroms == GraphLocations \cup {MTN_1}

GraphTos == {AAA_1, CCC_1, MTS_1, MTN_1, MTS_2, Station("MTS")}

GraphInit ==
    /\ TrainerIdle
    /\ PredictorIdle
    /\ MainIdle
    /\ network \in GraphNetworks
    /\ \E from \in GraphFroms, to \in GraphTos :
          call = [fn |-> "shortestPath", from |-> from, to |-> to]
    /\ returned = <<>>

\* shortestPath(from, to) runs to its return
CallShortestPath ==
    /\ call /= <<>>
    /\ call.fn = "shortestPath"
    /\ returned = <<>>
    /\ returned' = <<shortestPath(call.from, call.to)>>
    /\ UNCHANGED <<call, network, trainerVars, predictorVars, taskVars>>

SpecShortestPath == GraphInit /\ [][CallShortestPath]_vars

(* shortestPath called between locations that match each other: every
   adjacency document, self-loops included, of two Monument locations and
   one other location *)

MatchingOrder == <<AAA_1, MTS_1, MTN_1>>

MatchingNetworks ==
    { [l \in Range(MatchingOrder) |-> SelectSeq(MatchingOrder, LAMBDA x : x \in f[l])] :
        f \in [Range(MatchingOrder) -> SUBSET Range(MatchingOrder)] }

MatchingInit ==
    /\ TrainerIdle
    /\ PredictorIdle
    /\ MainIdle
    /\ network \in MatchingNetworks
    /\ \E from \in Range(MatchingOrder), to \in {AAA_1, MTS_1, MTN_1, Station("MTS")} :
          call = [fn |-> "shortestPath", from |-> from, to |-> to]
    /\ returned = <<>>

SpecMatching == MatchingInit /\ [][CallShortestPath]_vars

-----------------------------------------------------------------------------
(* FullState.fromActiveTrainHistoryStatus (models.ts), with getStationCode
   (proxy.ts).  The status holds the two signals as metro-api-client parses
   them: lastSeen as parseLastSeen returns it, the location of lastEvent as
   parseTimesAPILocation returns it.  Local time is UTC: every calendar day
   has 24 hours. *)

Minute == 60 * 1000

Day == 24 * Hour

TWELVE_HOURS_MS == 12 * 60 * 60 * 1000

\* apiConstants.LOCATION_ABBREVIATIONS, inverted
stationToCode == ("Alpha" :> "AAA") @@ ("Bravo" :> "BBB")

\* <<>>: throws Unrecognised station
getStationCode(station, platform) ==
    IF station = "Monument" THEN <<IF platform <= 2 THEN "MTS" ELSE "MTW">>
    ELSE IF station \in DOMAIN stationToCode THEN <<stationToCode[station]>>
    ELSE <<>>

\* the promise is rejected
Rejected == [ok |-> FALSE]

Fulfilled(value) == [ok |-> TRUE, value |-> value]

\* event.type.toLowerCase().replaceAll('_', ' '), first letter capitalised
formatType(type) ==
    CASE type = "ARRIVED" -> "Arrived"
      [] type = "DEPARTED" -> "Departed"
      [] type = "APPROACHING" -> "Approaching"
      [] type = "READY_TO_START" -> "Ready to start"

formatTimesApi(event) ==
    IF getStationCode(event.station, event.platform) = <<>> THEN Rejected
    ELSE Fulfilled(FullState(formatType(event.type),
                             getStationCode(event.station, event.platform)[1],
                             event.platform, event.time))

formatGeoApi(parsedLastSeen, date) ==
    IF getStationCode(parsedLastSeen.station, parsedLastSeen.platform) = <<>> THEN Rejected
    ELSE Fulfilled(FullState(parsedLastSeen.state,
                             getStationCode(parsedLastSeen.station, parsedLastSeen.platform)[1],
                             parsedLastSeen.platform, date))

\* new Date(date).setHours(hours, minutes, 0, 0)
setHours(date, hours, minutes) == (date - (date % Day)) + hours * Hour + minutes * Minute

\* The shift taken at a difference of exactly twelve hours too
geoDateInclusive(geoData, date) ==
    LET unshifted == setHours(date, geoData.hours, geoData.minutes)
        diff == unshifted - date
    IN  IF diff <= -TWELVE_HOURS_MS THEN unshifted + Day
        ELSE IF diff >= TWELVE_HOURS_MS THEN unshifted - Day
        ELSE unshifted

\* lines 65-74: geoDate after the adjustment
geoDate(geoData, date) ==
    LET unshifted == setHours(date, geoData.hours, geoData.minutes)
        diff == unshifted - date
    IN  IF diff < -TWELVE_HOURS_MS THEN unshifted + Day
        ELSE IF diff > TWELVE_HOURS_MS THEN unshifted - Day
        ELSE unshifted

\* The coarse signal preferred at equal timestamps too
useGeoAtEqual(status, date) ==
    status.timesAPI = <<>> \/ geoDate(status.lastSeen[1], date) >= status.timesAPI[1].time

\* line 76
useGeo(status, date) ==
    status.timesAPI = <<>> \/ geoDate(status.lastSeen[1], date) > status.timesAPI[1].time

\* lines 57-79; formatTimesApi(undefined) throws a TypeError
fromActiveTrainHistoryStatus(status, date) ==
    IF status.lastSeen = <<>>
    THEN IF status.timesAPI = <<>> THEN Rejected ELSE formatTimesApi(status.timesAPI[1])
    ELSE IF useGeo(status, date)
    THEN formatGeoApi(status.lastSeen[1], geoDate(status.lastSeen[1], date))
    ELSE formatTimesApi(status.timesAPI[1])

ReconcileHeartbeats == { Day + h * Hour + ms : h \in {0, 11, 13, 23}, ms \in {0, 1} }

ReconcileLastSeen ==
    {<<>>} \cup
    { <<[state |-> "Arrived", station |-> station, platform |-> 1,
         hours |-> hours, minutes |-> minutes]>> :
        station \in {"Alpha", "Nowhere"}, hours \in {0, 1, 12, 23}, minutes \in {0, 30} }

ReconcileTimes == {23 * Hour, Day + Hour, Day + Hour + 1, Day + 23 * Hour, 2 * Day + Hour}

ReconcileLastEvent ==
    {<<>>} \cup
    { <<[type |-> type, station |-> station, platform |-> 3, time |-> time]>> :
        type \in {"DEPARTED", "READY_TO_START"}, station \in {"Monument", "Nowhere"},
        time \in ReconcileTimes }

ReconcileInit ==
    /\ TrainerIdle
    /\ PredictorIdle
    /\ MainIdle
    /\ network = TrainerNetwork
    /\ \E date \in ReconcileHeartbeats, lastSeen \in ReconcileLastSeen,
          lastEvent \in ReconcileLastEvent :
          call = [fn |-> "fromActiveTrainHistoryStatus",
                  status |-> [timesAPI |-> lastEvent, lastSeen |-> lastSeen],
                  heartbeatDate |-> date]
    /\ returned = <<>>

\* FullState.fromActiveTrainHistoryStatus(status, heartbeatDate) settles
CallReconcile ==
    /\ call /= <<>>
    /\ call.fn = "fromActiveTrainHistoryStatus"
    /\ returned = <<>>
    /\ returned' = <<fromActiveTrainHistoryStatus(call.status, call.heartbeatDate)>>
    /\ UNCHANGED <<call, network, trainerVars, predictorVars, taskVars>>

SpecReconcile == ReconcileInit /\ [][CallReconcile]_vars

-----------------------------------------------------------------------------
(* trainer.ts: the reduction of the accumulators into the three models.  A
   JavaScript number that is a multiple of one half is the record
   [ms, half]: ms + half / 2, with half 0 or 1. *)

Whole(n) == [ms |-> n, half |-> 0]

\* n / 2
Halved(n) == [ms |-> n \div 2, half |-> n % 2]

\* the list with one more value, after the values not greater than it
RECURSIVE Inserted(_, _)
Inserted(sorted, x) ==
    IF sorted = <<>> THEN <<x>>
    ELSE IF x < sorted[1] THEN <<x>> \o sorted
    ELSE <<sorted[1]>> \o Inserted(Tail(sorted), x)

\* The list left in insertion order
sortNothing(deltas) == deltas

\* deltas.sort((a, b) => a - b)
RECURSIVE sort(_)
sort(deltas) ==
    IF deltas = <<>> THEN <<>>
    ELSE Inserted(sort(SubSeq(deltas, 1, Len(deltas) - 1)), Last(deltas))

\* lines 20-22; the list is 1-based here
median(deltas) ==
    LET sorted == sort(deltas)
        mid == Len(sorted) \div 2
    IN  IF Len(sorted) % 2 /= 0 THEN Whole(sorted[mid + 1])
        ELSE Halved(sorted[mid] + sorted[mid + 1])

computeMedians(timeDeltas) == [k \in DOMAIN timeDeltas |-> median(timeDeltas[k])]

\* the lists of the accumulator as computeMedians leaves them: sorted in place
SortedInPlace(timeDeltas) == [k \in DOMAIN timeDeltas |-> sort(timeDeltas[k])]

\* for (const [key, frequency] of frequencyMap.entries()), from the i-th entry on
RECURSIVE MostFrequentFrom(_, _, _, _)
MostFrequentFrom(entries, i, mostFrequentKey, highestFrequency) ==
    IF i > Len(entries) THEN mostFrequentKey
    ELSE IF entries[i].freq > highestFrequency
    THEN MostFrequentFrom(entries, i + 1, <<entries[i].key>>, entries[i].freq)
    ELSE MostFrequentFrom(entries, i + 1, mostFrequentKey, highestFrequency)

\* The scan that lets a later equal frequency win
RECURSIVE LastMostFrequentFrom(_, _, _, _)
LastMostFrequentFrom(entries, i, mostFrequentKey, highestFrequency) ==
    IF i > Len(entries) THEN mostFrequentKey
    ELSE IF entries[i].freq >= highestFrequency
    THEN LastMostFrequentFrom(entries, i + 1, <<entries[i].key>>, entries[i].freq)
    ELSE LastMostFrequentFrom(entries, i + 1, mostFrequentKey, highestFrequency)

findLastMostFrequentKey(entries) == LastMostFrequentFrom(entries, 1, <<>>, 0)

\* <<>>: null
findMostFrequentKeyInFrequencyMap(entries) == MostFrequentFrom(entries, 1, <<>>, 0)

\* lines 37-48; if (usualPath) skips null and the empty PathKey; the station
\* code `to` is the location code without platform the Predictor looks up
computeUsualPaths(matrix) ==
    LET found == { g \in DOMAIN matrix :
                     /\ findMostFrequentKeyInFrequencyMap(matrix[g]) /= <<>>
                     /\ findMostFrequentKeyInFrequencyMap(matrix[g])[1] /= <<>> }
    IN  [k \in { <<g[1], Station(g[2])>> : g \in found } |->
            findMostFrequentKeyInFrequencyMap(
                matrix[CHOOSE g \in found : <<g[1], Station(g[2])>> = k])[1]]

\* lines 62-73
computeUsualDestinations(matrix) ==
    LET found == { g \in DOMAIN matrix :
                     findMostFrequentKeyInFrequencyMap(matrix[g]) /= <<>> }
    IN  [g \in found |-> findMostFrequentKeyInFrequencyMap(matrix[g])[1]]

\* lines 191-195
ReduceModels ==
    /\ medianPathTimes' = computeMedians(allTimeDeltas)
    /\ allTimeDeltas' = SortedInPlace(allTimeDeltas)
    /\ usualPaths' = computeUsualPaths(pathFrequencyMatrix)
    /\ usualDestinations' = computeUsualDestinations(destinationFrequencyMatrix)

RECURSIVE TotalFrequency(_)
TotalFrequency(entries) ==
    IF entries = <<>> THEN 0 ELSE entries[1].freq + TotalFrequency(Tail(entries))

(* The accumulators filled sample by sample, then reduced: one time-delta
   key, one path group and one destination group. *)
ReduceDeltaKey == <<"Departed", AAA_1, BBB_1>>

ReduceDeltas == {1, 3, 4, 5, 7}

ReducePathGroup == <<AAA_1, "MTS">>

ReducePaths == {<<BBB_1, MTS_1>>, <<BBB_2, MTS_1>>}

ReduceDestinationGroup == <<AAA_1, BBB_1>>

ReduceDestinations == {MTS_1, CCC_1}

SampleCount ==
    Len(getOrSet(allTimeDeltas, ReduceDeltaKey, <<>>))
        + TotalFrequency(getOrSet(pathFrequencyMatrix, ReducePathGroup, <<>>))
        + TotalFrequency(getOrSet(destinationFrequencyMatrix, ReduceDestinationGroup, <<>>))

ReduceInit ==
    /\ TrainerIdle
    /\ PredictorIdle
    /\ ApplyIdle
    /\ network = PredictorNetwork
    /\ history = <<>>
    /\ tasks = <<>>
    /\ mainPc = "training"

SampleDelta ==
    /\ mainPc = "training"
    /\ SampleCount < MaxSamples
    /\ \E delta \in ReduceDeltas :
          allTimeDeltas' = addDelta(allTimeDeltas, ReduceDeltaKey, delta)
    /\ UNCHANGED <<pathFrequencyMatrix, destinationFrequencyMatrix>>
    /\ UNCHANGED <<currentJourney, fullState, prevJourney, addedDeltas, addedPaths,
                   addedDestinations, nEntries>>
    /\ UNCHANGED <<network, predictorVars, applyVars, taskVars>>

SamplePath ==
    /\ mainPc = "training"
    /\ SampleCount < MaxSamples
    /\ \E pathKey \in ReducePaths :
          pathFrequencyMatrix' = addPath(pathFrequencyMatrix, ReducePathGroup[1],
                                         ReducePathGroup[2], pathKey)
    /\ UNCHANGED <<allTimeDeltas, destinationFrequencyMatrix>>
    /\ UNCHANGED <<currentJourney, fullState, prevJourney, addedDeltas, addedPaths,
                   addedDestinations, nEntries>>
    /\ UNCHANGED <<network, predictorVars, applyVars, taskVars>>

SampleDestination ==
    /\ mainPc = "training"
    /\ SampleCount < MaxSamples
    /\ \E dest \in ReduceDestinations :
          destinationFrequencyMatrix' =
              addDestinationFrequency(destinationFrequencyMatrix, ReduceDestinationGroup[1],
                                      ReduceDestinationGroup[2], dest)
    /\ UNCHANGED <<allTimeDeltas, pathFrequencyMatrix>>
    /\ UNCHANGED <<currentJourney, fullState, prevJourney, addedDeltas, addedPaths,
                   addedDestinations, nEntries>>
    /\ UNCHANGED <<network, predictorVars, applyVars, taskVars>>

\* computeMedians, computeUsualPaths and computeUsualDestinations
Reduce ==
    /\ mainPc = "training"
    /\ mainPc' = "reduced"
    /\ ReduceModels
    /\ UNCHANGED <<pathFrequencyMatrix, destinationFrequencyMatrix>>
    /\ UNCHANGED <<currentJourney, fullState, prevJourney, addedDeltas, addedPaths,
                   addedDestinations, nEntries>>
    /\ UNCHANGED <<network, heartbeatDate, timetable, args, callVars, applyVars,
                   history, tasks>>

ReduceNext == SampleDelta \/ SamplePath \/ SampleDestination \/ Reduce

SpecReduce == ReduceInit /\ [][ReduceNext]_vars

-----------------------------------------------------------------------------
(* trainer.ts main: one task per vehicle of the history summary, run by
   pLimit(MAX_CONCURRENT_REQUESTS).map.  The tasks interleave at their awaits:
   the page fetch (line 93) and the reconciliation of each entry (line 104).
   The entries of history are the states fromActiveTrainHistoryStatus
   reconciles them to. *)

MAX_CONCURRENT_REQUESTS == 5

\* apiConstants.MAX_HISTORY_REQUEST_LIMIT
MAX_HISTORY_REQUEST_LIMIT == 2

\* Object.keys(historySummary.trains)
Vehicles == 1..MaxVehicles

\* the tasks that were started and have not finished
Active == { trn \in DOMAIN tasks : tasks[trn].status \in {"fetching", "processing"} }

\* No limit on the tasks that run at once
AlwaysFreeSlot == TRUE

\* pLimit: a queued task starts while fewer than the limit are running
HasFreeSlot == Cardinality(Active) < MAX_CONCURRENT_REQUESTS

\* proxy.getTrainHistory(trn, {time: {from}, limit}): the entries from the
\* cursor on, in the order the proxy holds them, at most limit of them
HistoryPage(trn, from, limit) ==
    LET pending == SelectSeq(history[trn], LAMBDA entry : entry.date >= from)
    IN  SubSeq(pending, 1, IF Len(pending) < limit THEN Len(pending) ELSE limit)

\* The next page starts at the last entry seen
CursorAtLatest(latestTimestamp) == latestTimestamp

\* line 94: from = new Date(latestTimestamp.getTime() + 1)
Cursor(latestTimestamp) == latestTimestamp + 1

\* from is the cursor of the request the task made last
NewTask ==
    [status |-> "queued", latestTimestamp |-> 0, from |-> 0, extract |-> <<>>,
     next |-> 0, currentJourney |-> <<>>]

\* lines 89-93: pLimit starts the tasks in the order of the keys
StartTask(trn) ==
    /\ mainPc = "training"
    /\ tasks[trn].status = "queued"
    /\ \A other \in 1..(trn - 1) : tasks[other].status /= "queued"
    /\ HasFreeSlot
    /\ tasks' = [tasks EXCEPT ![trn] =
                    [@ EXCEPT !.status = "fetching",
                              !.from = Cursor(tasks[trn].latestTimestamp)]]
    /\ UNCHANGED <<network, trainerVars, predictorVars, applyVars, history, mainPc>>

\* lines 93-99: a page arrives
FetchReturn(trn) ==
    /\ mainPc = "training"
    /\ tasks[trn].status = "fetching"
    /\ LET extract == HistoryPage(trn, tasks[trn].from, MAX_HISTORY_REQUEST_LIMIT)
       IN  tasks' = [tasks EXCEPT ![trn] =
                        IF extract = <<>>
                        THEN [@ EXCEPT !.status = "finished"]
                        ELSE [@ EXCEPT !.status = "processing",
                                       !.latestTimestamp = Last(extract).date,
                                       !.extract = extract,
                                       !.next = 1]]
    /\ UNCHANGED <<network, trainerVars, predictorVars, applyVars, history, mainPc>>

\* an entry whose station getStationCode does not recognise
Unrecognised(date) == [state |-> "Unrecognised", date |-> date]

\* lines 103-109: fromActiveTrainHistoryStatus fulfils
Reconciled(entry) == entry.state \in States

\* The journey is kept when an entry does not reconcile
EntryJourneyKept(before, entry) ==
    IF Reconciled(entry) THEN Segment(before, entry) ELSE before

\* lines 107 and 111-147: the task's journey after the entry
EntryJourney(before, entry) ==
    IF Reconciled(entry) THEN Segment(before, entry) ELSE <<>>

\* lines 137-144: the addDestinationFrequency calls of the entry
EntryDestinations(before, entry) ==
    IF Reconciled(entry) /\ Terminus(before, entry)
    THEN DestinationCalls(Append(before, entry)) ELSE <<>>

\* lines 164-171: the addPath calls of the entry
EntryPaths(before, entry) ==
    IF Reconciled(entry) /\ Analysed(before, entry)
    THEN PathCalls(Segment(before, entry), 1) ELSE <<>>

\* lines 173-176: the addDelta calls of the entry
EntryDeltas(before, entry) ==
    IF Reconciled(entry) /\ Analysed(before, entry)
    THEN DeltaCalls(Segment(before, entry), 1) ELSE <<>>

\* The journey is one array that all the tasks share
SharedJourney(trn) == currentJourney

\* line 91: currentJourney is a local of the task
TaskJourney(trn) == tasks[trn].currentJourney

\* lines 100-185: the next entry of the page is reconciled and handled; after
\* the last one the task fetches again unless the page was short
TaskEntry(trn) ==
    /\ mainPc = "training"
    /\ tasks[trn].status = "processing"
    /\ LET fs == tasks[trn].extract[tasks[trn].next]
           before == TaskJourney(trn)
           journey == EntryJourney(before, fs)
           dests == EntryDestinations(before, fs)
           paths == EntryPaths(before, fs)
           deltas == EntryDeltas(before, fs)
       IN  /\ fullState' = IF Reconciled(fs) THEN <<fs>> ELSE <<>>
           /\ prevJourney' = before
           /\ currentJourney' = journey
           /\ addedDestinations' = dests
           /\ addedPaths' = paths
           /\ addedDeltas' = deltas
           /\ destinationFrequencyMatrix' = ApplyDestinations(destinationFrequencyMatrix, dests)
           /\ pathFrequencyMatrix' = ApplyPaths(pathFrequencyMatrix, paths)
           /\ allTimeDeltas' = ApplyDeltas(allTimeDeltas, deltas)
           /\ tasks' = [tasks EXCEPT ![trn] =
                           [@ EXCEPT !.currentJourney = journey,
                                     !.next = IF @ < Len(tasks[trn].extract) THEN @ + 1 ELSE 0,
                                     !.from =
                                         IF /\ tasks[trn].next = Len(tasks[trn].extract)
                                            /\ Len(tasks[trn].extract) >= MAX_HISTORY_REQUEST_LIMIT
                                         THEN Cursor(tasks[trn].latestTimestamp)
                                         ELSE @,
                                     !.status =
                                         IF tasks[trn].next < Len(tasks[trn].extract)
                                         THEN "processing"
                                         ELSE IF Len(tasks[trn].extract) < MAX_HISTORY_REQUEST_LIMIT
                                         THEN "finished"
                                         ELSE "fetching"]]
    /\ UNCHANGED <<nEntries, network, predictorVars, applyVars, history, mainPc>>

\* line 93 rejects: the task rejects, pLimit(...).map rejects, main rejects and
\* main().catch ends the process (lines 214-217); nothing is reduced or saved
FetchFail(trn) ==
    /\ mainPc = "training"
    /\ tasks[trn].status = "fetching"
    /\ tasks' = [tasks EXCEPT ![trn].status = "failed"]
    /\ mainPc' = "aborted"
    /\ UNCHANGED <<network, trainerVars, predictorVars, applyVars, history>>

AllFinished == \A trn \in DOMAIN tasks : tasks[trn].status = "finished"

\* lines 189-195: every task has finished, the accumulators are reduced
MainReduce ==
    /\ mainPc = "training"
    /\ tasks /= <<>>
    /\ AllFinished
    /\ mainPc' = "reduced"
    /\ ReduceModels
    /\ UNCHANGED <<pathFrequencyMatrix, destinationFrequencyMatrix>>
    /\ UNCHANGED <<currentJourney, fullState, prevJourney, addedDeltas, addedPaths,
                   addedDestinations, nEntries>>
    /\ UNCHANGED <<network, heartbeatDate, timetable, args, callVars, applyVars,
                   history, tasks>>

\* a train from AAA_1 to Monument by the given platform of BBB
StreamVia(platform) ==
    << FullState("Departed", "AAA", 1, 1),
       FullState("Arrived", "BBB", platform, 2),
       FullState("Arrived", "MTS", 1, 3) >>

\* a train from AAA_1 to Monument with an unrecognised station on the way
StreamBroken ==
    << FullState("Departed", "AAA", 1, 1),
       FullState("Arrived", "BBB", 1, 2),
       Unrecognised(3),
       FullState("Arrived", "MTS", 1, 4) >>

TasksInit ==
    /\ TrainerIdle
    /\ PredictorIdle
    /\ ApplyIdle
    /\ network = PredictorNetwork
    /\ \E last \in {<<>>, SubSeq(StreamVia(1), 1, 1), SubSeq(StreamVia(1), 1, 2),
                     StreamBroken} :
          history = [trn \in Vehicles |->
                        IF trn = 1 THEN StreamVia(1)
                        ELSE IF trn = 2 THEN StreamVia(2)
                        ELSE IF trn = MaxVehicles THEN last
                        ELSE <<>>]
    /\ tasks = [trn \in Vehicles |-> NewTask]
    /\ mainPc = "training"

TasksNext ==
    \/ \E trn \in Vehicles : StartTask(trn)
    \/ \E trn \in Vehicles : FetchReturn(trn)
    \/ \E trn \in Vehicles : TaskEntry(trn)
    \/ MainReduce

SpecTasks == TasksInit /\ [][TasksNext]_vars

\* a train from AAA_1 to BBB_1 and back: the last entry is a terminus detection
StreamReturn ==
    << FullState("Departed", "AAA", 1, 1),
       FullState("Arrived", "BBB", 1, 2),
       FullState("Arrived", "AAA", 1, 3) >>

\* vehicles whose streams add to the same keys of the three accumulators
SharedInit ==
    /\ TrainerIdle
    /\ PredictorIdle
    /\ ApplyIdle
    /\ network = PredictorNetwork
    /\ \E third \in {<<>>, StreamReturn, StreamVia(1), StreamBroken} :
          history = [trn \in Vehicles |->
                        IF trn <= 2 THEN StreamReturn
                        ELSE IF trn = 3 THEN third
                        ELSE <<>>]
    /\ tasks = [trn \in Vehicles |-> NewTask]
    /\ mainPc = "training"

SpecShared == SharedInit /\ [][TasksNext]_vars

FailingNext ==
    \/ TasksNext
    \/ \E trn \in Vehicles : FetchFail(trn)

\* any history fetch may fail
SpecFailing == TasksInit /\ [][FailingNext]_vars

\* more vehicles than the limit; the last one has a history of one entry, a
\* full page or a full page and one entry more, the others have none
LimitInit ==
    /\ TrainerIdle
    /\ PredictorIdle
    /\ ApplyIdle
    /\ network = PredictorNetwork
    /\ \E n \in 1..3 :
          history = [trn \in Vehicles |->
                        IF trn = MaxVehicles
                        THEN SubSeq(StreamVia(1), 1, n) ELSE <<>>]
    /\ tasks = [trn \in Vehicles |-> NewTask]
    /\ mainPc = "training"

\* every fetch succeeds and the event loop runs every continuation
SpecLimit == LimitInit /\ [][TasksNext]_vars /\ WF_vars(TasksNext)

-----------------------------------------------------------------------------
(* models.ts: the three models as persisted documents.  A parsed JSON value is
   a record tagged with its kind; an object holds its fields as a map from key
   to value.  A model Map of two levels is the map from the pairs of its keys. *)

JNull == [type |-> "null"]

JBoolean(b) == [type |-> "boolean", boolean |-> b]

JNumber(n) == [type |-> "number", number |-> n]

JString(str) == [type |-> "string", string |-> str]

JArray(items) == [type |-> "array", items |-> items]

JObject(fields) == [type |-> "object", fields |-> fields]

\* typeof json
typeof(json) == IF json.type \in {"null", "array", "object"} THEN "object" ELSE json.type

\* Array.isArray(json)
isArray(json) == json.type = "array"

\* throw new Error(...)
Throws == [ok |-> FALSE]

\* return value
Returns(value) == [ok |-> TRUE, value |-> value]

\* the first-level keys of a model Map of two levels
OuterKeys(model) == { k[1] : k \in DOMAIN model }

\* the keys of the inner Map under a first-level key
InnerKeys(model, outer) == { k[2] : k \in { g \in DOMAIN model : g[1] = outer } }

\* Object.fromEntries(this)
MedianTimeDeltas_toJSON(model) == JObject([k \in DOMAIN model |-> JNumber(model[k])])

\* MedianTimeDeltas.fromJSON, lines 10-25
MedianTimeDeltas_fromJSON(json) ==
    IF json.type = "null" THEN Throws
    ELSE IF typeof(json) /= "object" THEN Throws
    ELSE IF isArray(json) THEN Throws
    ELSE IF \E k \in DOMAIN json.fields : typeof(json.fields[k]) /= "number" THEN Throws
    ELSE Returns([k \in DOMAIN json.fields |-> json.fields[k].number])

\* The two levels of the document are exchanged
NestedToJSONSwapped(model) ==
    JObject([inner \in { k[2] : k \in DOMAIN model } |->
                JObject([outer \in { k[1] : k \in { g \in DOMAIN model : g[2] = inner } } |->
                            JString(model[<<outer, inner>>])])])

\* obj[outer][inner] = value for every entry of every inner Map
NestedToJSON(model) ==
    JObject([outer \in OuterKeys(model) |->
                JObject([inner \in InnerKeys(model, outer) |->
                            JString(model[<<outer, inner>>])])])

\* the checks of an inner value: null, not an object, an array
InnerRejected(inner) == inner.type = "null" \/ typeof(inner) /= "object" \/ isArray(inner)

\* the pairs of keys of a document of two levels whose inner values are records
NestedPairs(json) ==
    UNION { { <<outer, inner>> : inner \in DOMAIN json.fields[outer].fields } :
            outer \in DOMAIN json.fields }

\* Entries that fail a check are left out and the others are loaded
NestedFromJSONLenient(json) ==
    IF json.type /= "object" THEN Throws
    ELSE LET kept == { outer \in DOMAIN json.fields : ~InnerRejected(json.fields[outer]) }
             pairs == UNION { { <<outer, inner>> :
                                  inner \in { i \in DOMAIN json.fields[outer].fields :
                                                typeof(json.fields[outer].fields[i]) = "string" } } :
                              outer \in kept }
         IN  Returns([k \in pairs |-> json.fields[k[1]].fields[k[2]].string])

\* UsualPaths.fromJSON, lines 49-78, and UsualDestinations.fromJSON, lines
\* 102-131: every entry is set with setUsualPath / setUsualDestination
NestedFromJSON(json) ==
    IF json.type = "null" THEN Throws
    ELSE IF typeof(json) /= "object" THEN Throws
    ELSE IF isArray(json) THEN Throws
    ELSE IF \E outer \in DOMAIN json.fields : InnerRejected(json.fields[outer]) THEN Throws
    ELSE IF \E k \in NestedPairs(json) : typeof(json.fields[k[1]].fields[k[2]]) /= "string"
    THEN Throws
    ELSE Returns([k \in NestedPairs(json) |-> json.fields[k[1]].fields[k[2]].string])

UsualPaths_toJSON(model) == NestedToJSON(model)

UsualPaths_fromJSON(json) == NestedFromJSON(json)

UsualDestinations_toJSON(model) == NestedToJSON(model)

UsualDestinations_fromJSON(json) == NestedFromJSON(json)

ModelTypes == {"MedianTimeDeltas", "UsualPaths", "UsualDestinations"}

toJSON(type, model) ==
    CASE type = "MedianTimeDeltas" -> MedianTimeDeltas_toJSON(model)
      [] type = "UsualPaths" -> UsualPaths_toJSON(model)
      [] type = "UsualDestinations" -> UsualDestinations_toJSON(model)

fromJSON(type, json) ==
    CASE type = "MedianTimeDeltas" -> MedianTimeDeltas_fromJSON(json)
      [] type = "UsualPaths" -> UsualPaths_fromJSON(json)
      [] type = "UsualDestinations" -> UsualDestinations_fromJSON(json)

\* the model values of the round trips
PersistKeys == {<<"Departed", AAA_1, BBB_1>>, <<"Arrived", BBB_1, MTS_1>>, <<"Departed", AAA_1, BBB_1, MTS_1>>}

PersistModels(type) ==
    CASE type = "MedianTimeDeltas" -> PartialMaps(PersistKeys, {Whole(300), Halved(3)})
      [] type = "UsualPaths" ->
            PartialMaps({AAA_1, BBB_1} \X {Station("BBB"), Station("MTS")},
                        {<<BBB_1, MTS_1>>, <<MTS_1>>})
      [] type = "UsualDestinations" ->
            PartialMaps({AAA_1, BBB_1} \X {AAA_1, BBB_1}, {MTS_1, CCC_1})

\* the documents that are loaded: every kind of value at every level
PersistOuterKeys == {AAA_1, BBB_1}

PersistInnerKeys == {BBB_1, MTS_1}

PersistString(type) ==
    CASE type = "MedianTimeDeltas" -> "300"
      [] type = "UsualPaths" -> <<BBB_1, MTS_1>>
      [] type = "UsualDestinations" -> MTS_1

PersistScalars(type) ==
    {JNull, JBoolean(TRUE), JNumber(Whole(300)), JString(PersistString(type)),
     JArray(<<>>), JArray(<<JNull>>)}

PersistInner(type) ==
    PersistScalars(type) \cup
    { JObject(fields) : fields \in PartialMaps(PersistInnerKeys, PersistScalars(type) \cup {JObject(EmptyMap)}) }

PersistDocuments(type) ==
    IF type = "MedianTimeDeltas" THEN PersistInner(type)
    ELSE PersistScalars(type) \cup
         { JObject(fields) : fields \in PartialMaps(PersistOuterKeys, PersistInner(type)) }

PersistInit ==
    /\ TrainerIdle
    /\ PredictorIdle
    /\ MainIdle
    /\ network = PredictorNetwork
    /\ \E type \in ModelTypes :
          \/ \E model \in PersistModels(type) :
                call = [fn |-> "roundTrip", type |-> type, model |-> model]
          \/ \E json \in PersistDocuments(type) :
                call = [fn |-> "fromJSON", type |-> type, json |-> json]
    /\ returned = <<>>

\* fromJSON(toJSON(model)) runs to its end
CallRoundTrip ==
    /\ call /= <<>>
    /\ call.fn = "roundTrip"
    /\ returned = <<>>
    /\ returned' = <<fromJSON(call.type, toJSON(call.type, call.model))>>
    /\ UNCHANGED <<call, network, trainerVars, predictorVars, taskVars>>

\* fromJSON(json) runs to its end
CallFromJSON ==
    /\ call /= <<>>
    /\ call.fn = "fromJSON"
    /\ returned = <<>>
    /\ returned' = <<fromJSON(call.type, call.json)>>
    /\ UNCHANGED <<call, network, trainerVars, predictorVars, taskVars>>

PersistNext == CallRoundTrip \/ CallFromJSON

SpecPersist == PersistInit /\ [][PersistNext]_vars

-----------------------------------------------------------------------------
(* Training, then predicting: one vehicle's journey along the chain is
   processed entry by entry (trainer.ts lines 100-180), the accumulators are
   reduced (lines 191-195), the models are loaded (predictor.ts lines 208-213)
   and predictNextArrivals is called with the first observation of the
   journey. *)

NineOClock == 9 * Hour

\* the locations of ChainNetwork from one end to the other
ChainStops == <<AAA_1, BBB_1, CCC_1, MTS_1>>

\* the time between two entries of the journey
JourneyGaps == {0, 5 * Minute, Hour}

\* the date of the i-th entry of a journey that starts at nine o'clock
RECURSIVE JourneyDate(_, _)
JourneyDate(gaps, i) == IF i = 1 THEN NineOClock ELSE JourneyDate(gaps, i - 1) + gaps[i - 1]

\* Departed at the first stop, then Arrived at each following stop in turn
ObservedJourney(gaps) ==
    [i \in 1..(Len(gaps) + 1) |->
        FullState(IF i = 1 THEN "Departed" ELSE "Arrived",
                  ChainStops[i].station, ChainStops[i].platform, JourneyDate(gaps, i))]

\* the timetables of the prediction: null, or one entry at the last stop at
\* the time of the last observation, bound for a stop of the chain or elsewhere
JourneyTimetables(journey) ==
    {<<>>}
    \cup { << <<Entry(locationCode(Last(journey)), dest,
                      <<toSecondsSinceMidnight(Last(journey).date)>>,
                      <<toSecondsSinceMidnight(Last(journey).date)>>)>> >> :
           dest \in {AAA_1, toLocationCode("ZZZ", 1)} }

JourneyInit ==
    /\ TrainerIdle
    /\ ApplyIdle
    /\ network = ChainNetwork
    /\ \E n \in 1..(Len(ChainStops) - 1) :
          \E gaps \in [1..n -> JourneyGaps] :
             /\ history = <<ObservedJourney(gaps)>>
             /\ args = [initialState |-> ObservedJourney(gaps)[1],
                        startingLocation |-> <<>>,
                        destination |-> <<Station(ChainStops[n + 1].station)>>]
             /\ timetable \in JourneyTimetables(ObservedJourney(gaps))
    /\ tasks = <<>>
    /\ mainPc = "training"
    /\ heartbeatDate = NineOClock
    /\ medianPathTimes = EmptyMap
    /\ usualPaths = EmptyMap
    /\ usualDestinations = EmptyMap
    /\ pc = "idle"
    /\ initialState = <<>>
    /\ startingLocation = <<>>
    /\ destination = <<>>
    /\ path = <<>>
    /\ idx = 0
    /\ pathed = <<>>
    /\ currentStateKey = <<>>
    /\ bufferTime = 0
    /\ predictions = <<>>
    /\ stack = <<>>
    /\ outcome = "running"
    /\ error = "none"
    /\ result = <<>>

\* trainer.ts lines 100-180: the next entry of the journey
JourneyEntry ==
    /\ mainPc = "training"
    /\ nEntries < Len(history[1])
    /\ HandleEntry(history[1][nEntries + 1])

\* new Date(date + bufferTime + medianTimeDelta): the median as a date adds it,
\* the half millisecond of an average cut off
Milliseconds(delta) == delta.ms

\* trainer.ts lines 191-195 and predictor.ts lines 208-213: the models are
\* reduced, saved and loaded, and the Predictor is called with the first
\* observation
JourneyReduce ==
    /\ mainPc = "training"
    /\ nEntries = Len(history[1])
    /\ mainPc' = "reduced"
    /\ medianPathTimes' =
          [k \in DOMAIN allTimeDeltas |-> Milliseconds(computeMedians(allTimeDeltas)[k])]
    /\ allTimeDeltas' = SortedInPlace(allTimeDeltas)
    /\ usualPaths' = computeUsualPaths(pathFrequencyMatrix)
    /\ usualDestinations' = computeUsualDestinations(destinationFrequencyMatrix)
    /\ pc' = "call"
    /\ initialState' = args.initialState
    /\ startingLocation' = args.startingLocation
    /\ destination' = args.destination
    /\ UNCHANGED <<path, idx, pathed, currentStateKey, bufferTime, predictions, stack,
                   outcome, error, result>>
    /\ UNCHANGED <<network, currentJourney, pathFrequencyMatrix, destinationFrequencyMatrix,
                   fullState, prevJourney, addedDeltas, addedPaths, addedDestinations,
                   nEntries, heartbeatDate, timetable, args, applyVars, history, tasks>>

JourneyNext ==
    \/ JourneyEntry
    \/ JourneyReduce
    \/ PredictorNext

SpecJourney == JourneyInit /\ [][JourneyNext]_vars

-----------------------------------------------------------------------------
(* Fallback runs: a train that departed AAA_1 at the heartbeat, bound for
   Monument along the chain or for a station that is not in the graph; any
   subset of the median deltas of the route, each key with a delta of its
   own. *)

FallbackMedians ==
    (<<"Departed", AAA_1, BBB_1, CCC_1>> :> 2 * Minute) @@
    (<<"Arrived", BBB_1, CCC_1>> :> 3 * Minute) @@
    (<<"Departed", AAA_1, BBB_1, CCC_1, MTS_1>> :> 4 * Minute) @@
    (<<"Arrived", BBB_1, CCC_1, MTS_1>> :> 5 * Minute) @@
    (<<"Arrived", CCC_1, MTS_1>> :> 6 * Minute)

FallbackInit ==
    /\ TrainerIdle
    /\ ApplyIdle
    /\ MainIdle
    /\ network = ChainNetwork
    /\ heartbeatDate = TenOClock
    /\ \E first \in PartialMaps({<<"Departed", AAA_1, BBB_1>>}, {Minute, PREDICTION_WINDOW + 1}),
          K \in SUBSET DOMAIN FallbackMedians :
          medianPathTimes = first @@ [k \in K |-> FallbackMedians[k]]
    /\ usualPaths = EmptyMap
    /\ usualDestinations = EmptyMap
    /\ timetable = <<>>
    /\ \E dest \in {Station("MTS"), Station("ZZZ")} :
          args = [initialState |-> FullState("Departed", "AAA", 1, TenOClock),
                  startingLocation |-> <<>>,
                  destination |-> <<dest>>]
    /\ CallInit

SpecFallback == FallbackInit /\ [][PredictorNext]_vars

-----------------------------------------------------------------------------
(* Terminating runs: a train that departed AAA_1 one hour before the
   heartbeat, bound for Monument, with median deltas that are all positive;
   the usual destinations turn a train back at MTS_1 and at BBB_1, so the legs
   chain for as long as the prediction window allows. *)

TerminateDeltas == {Hour, PREDICTION_WINDOW + 1}

TerminateInit ==
    /\ TrainerIdle
    /\ ApplyIdle
    /\ MainIdle
    /\ network = PredictorNetwork
    /\ heartbeatDate = TenOClock
    /\ \E some \in PartialMaps({<<"Departed", AAA_1, BBB_1, MTS_1>>,
                                 <<"Arrived", MTS_1, BBB_1>>}, TerminateDeltas) :
          medianPathTimes =
             some @@ [k \in {<<"Departed", AAA_1, BBB_1>>, <<"Arrived", BBB_1, MTS_1>>} |-> Hour]
    /\ usualPaths = EmptyMap
    /\ usualDestinations \in WalkDestinations
    /\ timetable = <<>>
    /\ \E date \in {TenOClock - Hour} :
          args = [initialState |-> FullState("Departed", "AAA", 1, date),
                  startingLocation |-> <<>>,
                  destination |-> <<Station("MTS")>>]
    /\ CallInit

\* predictNextArrivals is synchronous: a call that can take a step takes it
SpecTerminate == TerminateInit /\ [][PredictorNext]_vars /\ WF_vars(PredictorNext)

-----------------------------------------------------------------------------
(* Training, then predicting without a destination: one vehicle's run from
   AAA_1 to Monument and back to BBB_1 is processed, the models are reduced
   and predictNextArrivals is called with one of the observations, no
   destination and no timetable or one that names an unknown station. *)

\* the time between two entries of the run
TrainedGaps == {5 * Minute, PREDICTION_WINDOW + Minute}

\* out by the given platform of BBB, back to BBB_1
TrainedStream(platform, gap) ==
    << FullState("Departed", "AAA", 1, NineOClock),
       FullState("Arrived", "BBB", platform, NineOClock + gap),
       FullState("Arrived", "MTS", 1, NineOClock + 2 * gap),
       FullState("Arrived", "BBB", 1, NineOClock + 3 * gap) >>

TrainedTimetables(fs) ==
    {<<>>,
     << <<Entry(locationCode(fs), toLocationCode("ZZZ", 1),
                <<toSecondsSinceMidnight(fs.date)>>, <<toSecondsSinceMidnight(fs.date)>>)>> >>}

TrainedInit ==
    /\ TrainerIdle
    /\ ApplyIdle
    /\ network = PredictorNetwork
    /\ \E platform \in {1, 2}, gap \in TrainedGaps, n \in 2..4 :
          /\ history = <<SubSeq(TrainedStream(platform, gap), 1, n)>>
          /\ \E i \in 1..n :
                /\ args = [initialState |-> TrainedStream(platform, gap)[i],
                           startingLocation |-> <<>>,
                           destination |-> <<>>]
                /\ heartbeatDate = TrainedStream(platform, gap)[i].date
                /\ timetable \in TrainedTimetables(TrainedStream(platform, gap)[i])
    /\ tasks = <<>>
    /\ mainPc = "training"
    /\ medianPathTimes = EmptyMap
    /\ usualPaths = EmptyMap
    /\ usualDestinations = EmptyMap
    /\ pc = "idle"
    /\ initialState = <<>>
    /\ startingLocation = <<>>
    /\ destination = <<>>
    /\ path = <<>>
    /\ idx = 0
    /\ pathed = <<>>
    /\ currentStateKey = <<>>
    /\ bufferTime = 0
    /\ predictions = <<>>
    /\ stack = <<>>
    /\ outcome = "running"
    /\ error = "none"
    /\ result = <<>>

SpecTrained == TrainedInit /\ [][JourneyNext]_vars

-----------------------------------------------------------------------------
(* locationsMatch called on its own, on the pairs of three location codes:
   an ordinary station, a platform-insensitive station and two Monument
   station codes, each without platform and with platform 1 or 2 *)

MatchedLocations ==
    { toLocationCode(stationCode, platform) :
        stationCode \in {"AAA", "APT", "MTS", "MTN"}, platform \in {NoPlatform, 1, 2} }

LocationsInit ==
    /\ TrainerIdle
    /\ PredictorIdle
    /\ MainIdle
    /\ network = ChainNetwork
    /\ \E a \in MatchedLocations, b \in MatchedLocations, c \in MatchedLocations :
          call = [fn |-> "locationsMatch", a |-> a, b |-> b, c |-> c]
    /\ returned = <<>>

\* locationsMatch is applied to the pairs of the three locations
CallLocationsMatch ==
    /\ call /= <<>>
    /\ call.fn = "locationsMatch"
    /\ returned = <<>>
    /\ returned' = <<[aa |-> locationsMatch(call.a, call.a),
                      ab |-> locationsMatch(call.a, call.b),
                      ba |-> locationsMatch(call.b, call.a),
                      bc |-> locationsMatch(call.b, call.c),
                      ac |-> locationsMatch(call.a, call.c)]>>
    /\ UNCHANGED <<call, network, trainerVars, predictorVars, taskVars>>

SpecLocationsMatch == LocationsInit /\ [][CallLocationsMatch]_vars

-----------------------------------------------------------------------------
(* Properties of the Trainer *)

\* An entry has just been handled and reconciling it succeeded
Handled == fullState /= <<>>

NoSampleAdded == addedDeltas = <<>> /\ addedPaths = <<>> /\ addedDestinations = <<>>

accumulators == <<allTimeDeltas, pathFrequencyMatrix, destinationFrequencyMatrix>>

\* C2: in the journey, every two consecutive entries are either at the same
\* location with different states, or at different locations of which the
\* second is adjacent to the first; none repeats both state and location.
C2_JourneyConsecutive ==
    \A i \in 1..(Len(currentJourney) - 1) :
        LET previous == currentJourney[i]
            next == currentJourney[i + 1]
        IN  IF locationCode(previous) = locationCode(next)
            THEN previous.state /= next.state
            ELSE isAdjacent(locationCode(previous), locationCode(next))

C2_Witness ==
    /\ nEntries >= 3
    /\ Len(currentJourney) >= 3
    /\ \E i \in 1..(Len(currentJourney) - 1) :
          locationCode(currentJourney[i]) = locationCode(currentJourney[i + 1])
    /\ \E i \in 1..(Len(currentJourney) - 1) :
          locationCode(currentJourney[i]) /= locationCode(currentJourney[i + 1])

\* C3: an entry whose timestamp is not strictly after that of the journey's
\* last entry is dropped: the journey and the three accumulators are left as
\* they were and no add call is made, whatever its state and location.
C3_OutOfOrderDropped ==
    [][(/\ nEntries' = nEntries + 1
        /\ fullState' /= <<>>
        /\ currentJourney /= <<>>
        /\ fullState'[1].date <= Last(currentJourney).date)
       => (/\ currentJourney' = currentJourney
           /\ UNCHANGED accumulators
           /\ NoSampleAdded')]_vars

C3_Witness ==
    /\ Handled
    /\ prevJourney /= <<>>
    /\ fullState[1].date <= Last(prevJourney).date
    /\ fullState[1].state = "Arrived"
    /\ isAdjacent(locationCode(Last(prevJourney)), locationCode(fullState[1]))
    /\ currentJourney = prevJourney

\* C4: a later entry at a location that differs from the journey's last
\* location and is not adjacent to it empties the journey, records no sample
\* even when its state is Arrived, and the entry handled next on the empty
\* journey becomes the first entry of a new journey.
C4_NonAdjacentReset ==
    [][/\ (/\ nEntries' = nEntries + 1
           /\ fullState' /= <<>>
           /\ currentJourney /= <<>>
           /\ fullState'[1].date > Last(currentJourney).date
           /\ locationCode(fullState'[1]) /= locationCode(Last(currentJourney))
           /\ ~isAdjacent(locationCode(Last(currentJourney)), locationCode(fullState'[1])))
          => (/\ currentJourney' = <<>>
              /\ UNCHANGED accumulators
              /\ NoSampleAdded')
       /\ (/\ nEntries' = nEntries + 1
           /\ fullState' /= <<>>
           /\ currentJourney = <<>>)
          => (/\ currentJourney' = <<fullState'[1]>>
              /\ UNCHANGED accumulators)]_vars

C4_Witness ==
    /\ Handled
    /\ prevJourney /= <<>>
    /\ fullState[1].state = "Arrived"
    /\ fullState[1].date > Last(prevJourney).date
    /\ locationCode(fullState[1]) /= locationCode(Last(prevJourney))
    /\ ~isAdjacent(locationCode(Last(prevJourney)), locationCode(fullState[1]))
    /\ currentJourney = <<>>

\* The case of C5: a later entry at another, adjacent location whose station
\* is the station of some earlier journey entry
C5_Case ==
    /\ Handled
    /\ prevJourney /= <<>>
    /\ fullState[1].date > Last(prevJourney).date
    /\ locationCode(fullState[1]) /= locationCode(Last(prevJourney))
    /\ isAdjacent(locationCode(Last(prevJourney)), locationCode(fullState[1]))
    /\ \E j \in 1..Len(prevJourney) : prevJourney[j].stationCode = fullState[1].stationCode

\* C5: at a terminus detection every destination-frequency sample recorded has
\* startingLocation = the location of the journey's first entry before the
\* truncation and destination = the previous entry's location, and the journey
\* becomes exactly [previous entry, new entry].
C5_TerminusSamples ==
    C5_Case =>
        /\ \A j \in 1..Len(addedDestinations) :
              /\ addedDestinations[j][1] = locationCode(prevJourney[1])
              /\ addedDestinations[j][3] = locationCode(Last(prevJourney))
        /\ currentJourney = <<Last(prevJourney), fullState[1]>>

C5_Witness ==
    /\ C5_Case
    /\ Len(prevJourney) >= 2
    /\ locationCode(prevJourney[1]) /= locationCode(Last(prevJourney))
    /\ Len(addedDestinations) >= 3

\* The entry is kept as the journey's newest entry (section 4.3 of the design)
C6_Accepted ==
    /\ Handled
    /\ \/ prevJourney = <<>>
       \/ /\ fullState[1].date > Last(prevJourney).date
          /\ key(fullState[1]) /= key(Last(prevJourney))
          /\ \/ locationCode(fullState[1]) = locationCode(Last(prevJourney))
             \/ isAdjacent(locationCode(Last(prevJourney)), locationCode(fullState[1]))

\* The locations the journey moves to after entry i, in order
RECURSIVE C6_Moves(_, _)
C6_Moves(journey, i) ==
    IF i >= Len(journey) THEN <<>>
    ELSE (IF locationCode(journey[i + 1]) /= locationCode(journey[i])
          THEN <<locationCode(journey[i + 1])>> ELSE <<>>)
         \o C6_Moves(journey, i + 1)

C6_PathKey(journey, i) ==
    IF C6_Moves(journey, i) = <<>> THEN <<locationCode(journey[i])>>
    ELSE C6_Moves(journey, i)

\* C6: time-delta samples are recorded exactly when an accepted newest entry is
\* Arrived: with n entries in the journey afterwards, n-1 samples, the i-th
\* with value newest.date - from.date under from.key -> pathKey; an accepted
\* entry that is not Arrived records no time-delta and no path-frequency sample.
C6_ArrivedDeltas ==
    Handled =>
        LET n == Len(currentJourney) IN
        /\ (C6_Accepted /\ fullState[1].state = "Arrived") =>
              /\ Len(addedDeltas) = n - 1
              /\ \A i \in 1..(n - 1) :
                    addedDeltas[i] =
                        << key(currentJourney[i]) \o C6_PathKey(currentJourney, i),
                           fullState[1].date - currentJourney[i].date >>
        /\ (C6_Accepted /\ fullState[1].state /= "Arrived") =>
              addedDeltas = <<>> /\ addedPaths = <<>>
        /\ ~C6_Accepted => addedDeltas = <<>>

C6_Witness ==
    /\ C6_Accepted
    /\ fullState[1].state = "Arrived"
    /\ Len(currentJourney) >= 3
    /\ Len(addedDeltas) = Len(currentJourney) - 1
    /\ locationCode(currentJourney[1]) = locationCode(currentJourney[2])
    /\ locationCode(currentJourney[2]) /= locationCode(currentJourney[3])

-----------------------------------------------------------------------------
(* Properties of the Predictor *)

InWindow(prediction) ==
    /\ heartbeatDate <= prediction.time
    /\ prediction.time <= heartbeatDate + PREDICTION_WINDOW

\* C1: every predicted time of a call, of the calls waiting for it and of the
\* returned list is at or after the heartbeat and at most 2 hours after it.
C1_TimesInWindow ==
    /\ \A i \in DOMAIN predictions : InWindow(predictions[i])
    /\ \A f \in DOMAIN stack :
          \A i \in DOMAIN stack[f].predictions : InWindow(stack[f].predictions[i])
    /\ \A i \in DOMAIN result : InWindow(result[i])

C1_Witness ==
    /\ pc = "done"
    /\ outcome = "returned"
    /\ stack /= <<>>
    /\ Len(result) >= 3
    /\ args.initialState.date < heartbeatDate
    /\ <<"Departed", AAA_1, BBB_1>> \in DOMAIN medianPathTimes
    /\ medianPathTimes[<<"Departed", AAA_1, BBB_1>>] < 0
    /\ result[1].time = heartbeatDate
    /\ \E i \in DOMAIN result : result[i].time = heartbeatDate + PREDICTION_WINDOW

\* The top-level call is past its destination resolution
C7_TopEnded == pc /= "call" \/ stack /= <<>>

C7_TopDestination == IF stack = <<>> THEN destination ELSE stack[1].destination

C7_Location == locationCode(args.initialState)

C7_Start ==
    IF args.startingLocation = <<>> THEN C7_Location ELSE args.startingLocation[1]

C7_Scheduled(entry) ==
    IF /\ args.initialState.state \in {"Approaching", "Arrived"}
       /\ entry.arrivalTime /= <<>>
       /\ entry.arrivalTime[1] /= 0
    THEN entry.arrivalTime[1]
    ELSE entry.departureTime[1]

\* The timetable entries that are accepted as a match of the current state
C7_Matches ==
    IF timetable = <<>> THEN {}
    ELSE { i \in DOMAIN timetable[1] :
             /\ timetable[1][i].departureTime /= <<>>
             /\ locationsMatch(timetable[1][i].location, C7_Location)
             /\ Abs(C7_Scheduled(timetable[1][i])
                    - toSecondsSinceMidnight(args.initialState.date)) < TIMETABLE_THRESHOLD }

C7_TimetableDestinations ==
    { Station(Canonical(timetable[1][i].destination.station)) : i \in C7_Matches }

\* C7: the destination of the top-level call is the explicit argument when one
\* is given; else that of an accepted timetable entry when there is one; else
\* UsualDestinations[startingLocation][currentLocation]; and with none of
\* these the call throws NoDestinationFound and returns nothing.
C7_DestinationPriority ==
    C7_TopEnded =>
        IF args.destination /= <<>>
        THEN C7_TopDestination = args.destination
        ELSE IF C7_Matches /= {}
        THEN \E d \in C7_TimetableDestinations : C7_TopDestination = <<d>>
        ELSE IF <<C7_Start, C7_Location>> \in DOMAIN usualDestinations
        THEN C7_TopDestination = <<usualDestinations[<<C7_Start, C7_Location>>]>>
        ELSE /\ outcome = "threw"
             /\ error = "NoDestinationFound"
             /\ result = <<>>
             /\ stack = <<>>

C7_Witness ==
    /\ C7_TopEnded
    /\ args.destination = <<>>
    /\ C7_Matches /= {}
    /\ <<C7_Start, C7_Location>> \in DOMAIN usualDestinations
    /\ C7_TopDestination /= <<usualDestinations[<<C7_Start, C7_Location>>]>>
    /\ C7_TopDestination = <<Station("MTS")>>

\* The path resolution of one call, from its state, destination and path
C8_Resolved(fs, dest, route, failed) ==
    IF <<locationCode(fs), dest>> \in DOMAIN usualPaths
    THEN ~failed /\ route = usualPaths[<<locationCode(fs), dest>>]
    ELSE IF shortestPath(locationCode(fs), dest) /= <<>>
    THEN ~failed /\ route = shortestPath(locationCode(fs), dest)[1]
    ELSE failed

\* C8: a call walks UsualPaths[currentLocation][destination] whenever that
\* entry exists, the graph's shortest path only when it does not, and throws
\* NoPathFound when both are absent (to the caller of the top-level call).
C8_PathPriority ==
    /\ \A f \in DOMAIN stack :
          C8_Resolved(stack[f].initialState, stack[f].destination[1], stack[f].path, FALSE)
    /\ (pc \in {"walk", "done"} /\ destination /= <<>>) =>
          /\ C8_Resolved(initialState, destination[1], path,
                         pc = "done" /\ error = "NoPathFound")
          /\ (error = "NoPathFound" /\ stack = <<>>) => (outcome = "threw" /\ result = <<>>)

C8_Witness ==
    /\ pc = "walk"
    /\ stack = <<>>
    /\ <<locationCode(initialState), destination[1]>> \in DOMAIN usualPaths
    /\ path = usualPaths[<<locationCode(initialState), destination[1]>>]
    /\ shortestPath(locationCode(initialState), destination[1]) /= <<>>
    /\ path /= shortestPath(locationCode(initialState), destination[1])[1]

C9_Locations(preds) == [i \in DOMAIN preds |-> preds[i].locationCode]

\* The predictions of the first n waiting calls, in call order
RECURSIVE C9_Upto(_)
C9_Upto(n) == IF n = 0 THEN <<>> ELSE C9_Upto(n - 1) \o stack[n].predictions

\* C9: a call that walked its whole path returns normally whatever its chained
\* call does; when the chained call throws NoDestinationFound or NoPathFound,
\* the result is the predictions of the walked paths, in path order.
C9_ChainFailureSwallowed ==
    /\ stack /= <<>> => outcome /= "threw"
    /\ \A f \in DOMAIN stack : C9_Locations(stack[f].predictions) = stack[f].path
    /\ (pc = "done" /\ error /= "none" /\ stack /= <<>>) =>
          /\ outcome = "returned"
          /\ result = C9_Upto(Len(stack))
          /\ Len(stack) = 1 =>
                (result = stack[1].predictions /\ C9_Locations(result) = stack[1].path)

C9_Witness ==
    /\ pc = "done"
    /\ error = "NoDestinationFound"
    /\ Len(stack) = 2
    /\ outcome = "returned"
    /\ Len(result) = 3

\* C10 as stated: a walk that stops early after at least one prediction is
\* followed by a recursive call from the final predicted location.
C10_ChainsAfterEarlyStop ==
    [][(/\ pc = "walk"
        /\ pc' /= "walk"
        /\ idx <= Len(path)
        /\ predictions /= <<>>)
       => (/\ pc' = "call"
           /\ Len(stack') = Len(stack) + 1
           /\ destination' = <<>>
           /\ initialState'.state = "Arrived"
           /\ locationCode(initialState') = Last(predictions).locationCode)]_vars

\* C10, amended: a walk that stops early returns the predictions made so far
\* (after those of the waiting calls) and makes no recursive call; a walk that
\* exhausts its path calls predictNextArrivals again from the final predicted
\* location as an Arrived state at the final predicted time, with that
\* location as starting location and no destination.
C10_ChainsOnlyAfterWholePath ==
    [][(pc = "walk" /\ pc' /= "walk") =>
          IF idx <= Len(path)
          THEN /\ pc' = "done"
               /\ outcome' = "returned"
               /\ stack' = stack
               /\ result' = C9_Upto(Len(stack)) \o predictions
          ELSE /\ pc' = "call"
               /\ Len(stack') = Len(stack) + 1
               /\ Last(stack').predictions = predictions
               /\ initialState' = FullState("Arrived",
                                            Last(predictions).locationCode.station,
                                            Last(predictions).locationCode.platform,
                                            Last(predictions).time)
               /\ startingLocation' = <<Last(predictions).locationCode>>
               /\ destination' = <<>>]_vars

C10_Witness ==
    /\ pc = "done"
    /\ outcome = "returned"
    /\ error = "none"
    /\ stack = <<>>
    /\ idx <= Len(path)
    /\ predictions /= <<>>
    /\ result = predictions

\* A leg of the walk is emitted by this step
C11_LegEmitted == Walking /\ idx' = idx + 1 /\ pc' = "walk"

\* C11 as stated: after a leg whose unclamped projected time is before the
\* heartbeat, the emitted time is the heartbeat and the next leg's projected
\* time is the heartbeat plus the median delta looked up for the next leg.
C11_NextLegFromHeartbeat ==
    [][(C11_LegEmitted /\ ProjectedTime < heartbeatDate) =>
          /\ Last(predictions').time = heartbeatDate
          /\ (Walking' /\ NextDelta'.found) =>
                /\ ProjectedTime' = heartbeatDate + NextDelta'.delta
                /\ ProjectedTime' >= heartbeatDate]_vars

\* C11, amended: after a leg whose unclamped projected time is before the
\* heartbeat, the emitted time is the heartbeat and the next leg's projected
\* time is the heartbeat plus the difference between the median delta looked
\* up for the next leg and the one looked up for the clamped leg; the time the
\* next leg emits is not before the heartbeat.
C11_NextLegByDifference ==
    [][(C11_LegEmitted /\ ProjectedTime < heartbeatDate) =>
          /\ Last(predictions').time = heartbeatDate
          /\ (Walking' /\ NextDelta'.found) =>
                /\ ProjectedTime' = heartbeatDate + NextDelta'.delta - NextDelta.delta
                /\ Clamp(ProjectedTime') >= heartbeatDate]_vars

C11_Witness ==
    /\ Walking
    /\ NextDelta.found
    /\ Len(predictions) = 1
    /\ predictions[1].time = heartbeatDate
    /\ bufferTime > 0
    /\ ProjectedTime /= heartbeatDate + NextDelta.delta

\* C12: a leg projected, after clamping, more than 2 hours after the heartbeat
\* ends the call at once with the predictions made so far, nothing being
\* emitted for it, for later locations or for a chained leg; a leg projected
\* at exactly 2 hours after the heartbeat is emitted.
C12_WindowCutoff ==
    [][(Walking /\ NextDelta.found) =>
          /\ Clamp(ProjectedTime) > heartbeatDate + PREDICTION_WINDOW =>
                /\ pc' = "done"
                /\ outcome' = "returned"
                /\ predictions' = predictions
                /\ stack' = stack
                /\ result' = C9_Upto(Len(stack)) \o predictions
          /\ Clamp(ProjectedTime) = heartbeatDate + PREDICTION_WINDOW =>
                /\ pc' = "walk"
                /\ predictions' = Append(predictions,
                                         [locationCode |-> path[idx],
                                          time |-> heartbeatDate + PREDICTION_WINDOW])]_vars

C12_Witness ==
    /\ pc = "done"
    /\ idx <= Len(path)
    /\ NextDelta.found
    /\ predictions /= <<>>
    /\ Last(predictions).time = heartbeatDate + PREDICTION_WINDOW
    /\ Clamp(ProjectedTime) = heartbeatDate + PREDICTION_WINDOW + 1
    /\ result = C9_Upto(Len(stack)) \o predictions

\* C13: the times of the returned list never decrease from one prediction to
\* the next.
C13_ResultOrdered ==
    \A i \in 1..(Len(result) - 1) : result[i].time <= result[i + 1].time

\* a walk that used a fallback delta returned earlier times after later ones
C13_FallbackDisorder ==
    /\ pc = "done"
    /\ Len(stack) = 1
    /\ Len(result) = 2
    /\ args.initialState.date = heartbeatDate
    /\ DOMAIN medianPathTimes = {<<"Departed", AAA_1, BBB_1>>, <<"Arrived", BBB_1, MTS_1>>}
    /\ medianPathTimes[<<"Departed", AAA_1, BBB_1>>] = PREDICTION_WINDOW
    /\ medianPathTimes[<<"Arrived", BBB_1, MTS_1>>] = Hour
    /\ result[2].time < result[1].time

-----------------------------------------------------------------------------
(* Properties of the location graph *)

\* the locations a walk of 1 to n edges leads to from a location
RECURSIVE C14_Within(_, _)
C14_Within(from, n) ==
    IF n = 0 THEN {}
    ELSE LET near == C14_Within(from, n - 1)
             ends == IF n = 1 THEN {from} ELSE near
         IN  near \cup UNION { Range(network[l]) : l \in ends \cap DOMAIN network }

C14_Edge(from, to) == from \in DOMAIN network /\ to \in Range(network[from])

C14_IsWalk(from, route) ==
    /\ route /= <<>>
    /\ C14_Edge(from, route[1])
    /\ \A i \in 1..(Len(route) - 1) : C14_Edge(route[i], route[i + 1])

C14_Returned == returned /= <<>> /\ call.fn = "shortestPath"

\* what is asked of a result, the locations of targets being those that count
\* as reaching `to`
C14_Correct(targets) ==
    IF returned[1] = <<>>
    THEN C14_Within(call.from, Cardinality(GraphLocations)) \cap targets = {}
    ELSE LET route == returned[1][1] IN
         /\ C14_IsWalk(call.from, route)
         /\ \A i \in DOMAIN route : route[i] /= call.from
         /\ locationsMatch(Last(route), call.to)
         /\ C14_Within(call.from, Len(route) - 1) \cap targets = {}

C14_Chain ==
    (network = ChainNetwork /\ call.from = AAA_1 /\ call.to = MTS_1)
        => returned[1] = <<<<BBB_1, CCC_1, MTS_1>>>>

\* C14 as stated: a returned sequence is a walk from `from` that does not hold
\* `from`, ends at a location matching `to` and is as short as any walk of at
\* least one edge to a location matching `to`; not-found is returned exactly
\* when no walk of one or more edges reaches a location matching `to`; on
\* the chain A-B-C-D, shortestPath(A, D) = [B, C, D].
C14_ShortestToAnyMatch ==
    C14_Returned =>
        /\ C14_Correct({l \in GraphLocations : locationsMatch(l, call.to)})
        /\ C14_Chain

\* C14, amended: the same, the locations that count being those other than
\* `from` that match `to`.
C14_ShortestToOtherMatch ==
    C14_Returned =>
        /\ C14_Correct({l \in GraphLocations \ {call.from} : locationsMatch(l, call.to)})
        /\ C14_Chain

C14_Witness ==
    /\ C14_Returned
    /\ network = ChainNetwork
    /\ call.from = AAA_1
    /\ call.to = MTN_1
    /\ returned[1] = <<<<BBB_1, CCC_1, MTS_1>>>>

-----------------------------------------------------------------------------
(* Properties of the StateReconciler *)

C15_Settled ==
    /\ returned /= <<>>
    /\ call.fn = "fromActiveTrainHistoryStatus"
    /\ call.status.lastSeen /= <<>>

\* the coarse timestamp on the heartbeat's calendar date
C15_Raw ==
    (call.heartbeatDate \div Day) * Day
        + call.status.lastSeen[1].hours * Hour + call.status.lastSeen[1].minutes * Minute

C15_Coarse == geoDate(call.status.lastSeen[1], call.heartbeatDate)

\* C15: the coarse timestamp is moved forward one day exactly when it is more
\* than 12 hours before the heartbeat, back one day exactly when it is more
\* than 12 hours after it, and is otherwise unchanged; it then differs from
\* the heartbeat by at most 12 hours, and is the date of a returned coarse
\* observation.
C15_WithinTwelveHours ==
    C15_Settled =>
        /\ (C15_Coarse = C15_Raw + Day) <=> (call.heartbeatDate - C15_Raw > 12 * Hour)
        /\ (C15_Coarse = C15_Raw - Day) <=> (C15_Raw - call.heartbeatDate > 12 * Hour)
        /\ C15_Coarse \in {C15_Raw - Day, C15_Raw, C15_Raw + Day}
        /\ Abs(C15_Coarse - call.heartbeatDate) <= 12 * Hour
        /\ (returned[1].ok /\ returned[1].value.state = "Arrived")
              => returned[1].value.date = C15_Coarse

C15_Witness ==
    /\ C15_Settled
    /\ call.heartbeatDate - C15_Raw = 12 * Hour + 1
    /\ returned[1].ok
    /\ returned[1].value.state = "Arrived"
    /\ returned[1].value.date = call.heartbeatDate + 12 * Hour - 1

C16_Coarse ==
    [state |-> call.status.lastSeen[1].state,
     station |-> call.status.lastSeen[1].station,
     platform |-> call.status.lastSeen[1].platform,
     date |-> C15_Coarse]

C16_Precise ==
    [state |-> formatType(call.status.timesAPI[1].type),
     station |-> call.status.timesAPI[1].station,
     platform |-> call.status.timesAPI[1].platform,
     date |-> call.status.timesAPI[1].time]

\* the call returns this observation, or fails when its station has no code
C16_Returns(observation) ==
    IF getStationCode(observation.station, observation.platform) = <<>>
    THEN ~returned[1].ok
    ELSE /\ returned[1].ok
         /\ returned[1].value =
                FullState(observation.state,
                          getStationCode(observation.station, observation.platform)[1],
                          observation.platform, observation.date)

\* C16: with both signals the coarse observation, dated with the shifted
\* coarse timestamp, is returned when that timestamp is strictly later than
\* the precise one, and the precise observation otherwise, equal timestamps
\* included; with one signal only, that signal's observation is returned.
C16_SignalChoice ==
    (returned /= <<>> /\ call.fn = "fromActiveTrainHistoryStatus") =>
        IF call.status.lastSeen = <<>>
        THEN call.status.timesAPI /= <<>> => C16_Returns(C16_Precise)
        ELSE IF call.status.timesAPI = <<>>
        THEN C16_Returns(C16_Coarse)
        ELSE IF C15_Coarse > call.status.timesAPI[1].time
        THEN C16_Returns(C16_Coarse)
        ELSE C16_Returns(C16_Precise)

C16_Witness ==
    /\ returned /= <<>>
    /\ call.fn = "fromActiveTrainHistoryStatus"
    /\ call.status.lastSeen /= <<>>
    /\ call.status.timesAPI /= <<>>
    /\ C15_Coarse = call.status.timesAPI[1].time
    /\ C15_Coarse /= C15_Raw
    /\ returned[1].ok
    /\ returned[1].value.state = "Departed"
    /\ returned[1].value.stationCode = "MTW"

-----------------------------------------------------------------------------
(* Properties of the ModelBuilder *)

\* the k-th smallest value of a list, by counting
C17_Kth(deltas, k) ==
    CHOOSE v \in Range(deltas) :
        /\ Cardinality({i \in DOMAIN deltas : deltas[i] < v}) < k
        /\ Cardinality({i \in DOMAIN deltas : deltas[i] <= v}) >= k

\* twice the median of a list: a function of the values and their counts only
C17_TwiceMedian(deltas) ==
    IF Len(deltas) % 2 = 1
    THEN 2 * C17_Kth(deltas, (Len(deltas) + 1) \div 2)
    ELSE C17_Kth(deltas, Len(deltas) \div 2) + C17_Kth(deltas, Len(deltas) \div 2 + 1)

\* C17: computeMedians gives every key the middle value of its samples in
\* ascending order when their count is odd and the average of the two middle
\* values when it is even, whatever the order they were added in; the median
\* of [5,1,3] is 3 and that of [5,1,3,7] is 4.
C17_Median ==
    [][(mainPc = "training" /\ mainPc' = "reduced") =>
          /\ DOMAIN medianPathTimes' = DOMAIN allTimeDeltas
          /\ \A k \in DOMAIN allTimeDeltas :
                /\ 2 * medianPathTimes'[k].ms + medianPathTimes'[k].half
                      = C17_TwiceMedian(allTimeDeltas[k])
                /\ medianPathTimes'[k].half \in {0, 1}
                /\ allTimeDeltas[k] = <<5, 1, 3>> => medianPathTimes'[k] = Whole(3)
                /\ allTimeDeltas[k] = <<5, 1, 3, 7>> => medianPathTimes'[k] = Whole(4)]_vars

C17_Witness ==
    /\ mainPc = "reduced"
    /\ ReduceDeltaKey \in DOMAIN allTimeDeltas
    /\ allTimeDeltas[ReduceDeltaKey] = <<1, 3, 4, 7>>
    /\ medianPathTimes[ReduceDeltaKey] = [ms |-> 3, half |-> 1]

\* the value is first, in the order of the group's entries, among those of
\* the highest count
C18_FirstOfHighest(entries, value) ==
    \E i \in DOMAIN entries :
        /\ entries[i].key = value
        /\ \A j \in DOMAIN entries : entries[j].freq <= entries[i].freq
        /\ \A j \in 1..(i - 1) : entries[j].freq < entries[i].freq

\* C18: for every group, computeUsualPaths and computeUsualDestinations select
\* a value of the highest count, the first such value in the scan of the
\* group; counts {X:2, Y:2} inserted X then Y give X.
C18_Mode ==
    mainPc = "reduced" =>
        /\ \A g \in DOMAIN pathFrequencyMatrix :
              /\ <<g[1], Station(g[2])>> \in DOMAIN usualPaths
              /\ C18_FirstOfHighest(pathFrequencyMatrix[g],
                                    usualPaths[<<g[1], Station(g[2])>>])
              /\ pathFrequencyMatrix[g] = <<[key |-> <<BBB_1, MTS_1>>, freq |-> 2],
                                            [key |-> <<BBB_2, MTS_1>>, freq |-> 2]>>
                    => usualPaths[<<g[1], Station(g[2])>>] = <<BBB_1, MTS_1>>
        /\ \A g \in DOMAIN destinationFrequencyMatrix :
              /\ g \in DOMAIN usualDestinations
              /\ C18_FirstOfHighest(destinationFrequencyMatrix[g], usualDestinations[g])

C18_Witness ==
    /\ mainPc = "reduced"
    /\ ReducePathGroup \in DOMAIN pathFrequencyMatrix
    /\ pathFrequencyMatrix[ReducePathGroup] = <<[key |-> <<BBB_2, MTS_1>>, freq |-> 2],
                                                [key |-> <<BBB_1, MTS_1>>, freq |-> 2]>>
    /\ usualPaths[<<AAA_1, Station("MTS")>>] = <<BBB_2, MTS_1>>

-----------------------------------------------------------------------------
(* Properties of the vehicle-processing tasks *)

C19_Empty == [deltas |-> EmptyMap, paths |-> EmptyMap, dests |-> EmptyMap]

\* the accumulators after one vehicle's stream is processed from entry i on
RECURSIVE C19_RunStream(_, _, _, _)
C19_RunStream(acc, journey, stream, i) ==
    IF i > Len(stream) THEN acc
    ELSE LET fs == stream[i]
             after == EntryJourney(journey, fs)
             dests == EntryDestinations(journey, fs)
             paths == EntryPaths(journey, fs)
             deltas == EntryDeltas(journey, fs)
         IN  C19_RunStream([deltas |-> ApplyDeltas(acc.deltas, deltas),
                            paths |-> ApplyPaths(acc.paths, paths),
                            dests |-> ApplyDestinations(acc.dests, dests)],
                           after, stream, i + 1)

\* the interleaving in which each vehicle is processed to its end before the
\* next one: vehicles trn, trn + 1, ...
RECURSIVE C19_RunVehicles(_, _)
C19_RunVehicles(acc, trn) ==
    IF trn > MaxVehicles THEN acc
    ELSE C19_RunVehicles(C19_RunStream(acc, <<>>, history[trn], 1), trn + 1)

C19_Sequential == C19_RunVehicles(C19_Empty, 1)

\* C19: whatever the interleaving of the tasks, the three reduced models are
\* those of the interleaving that processes the vehicles one after the other.
C19_OrderIndependent ==
    (mainPc = "reduced" /\ tasks /= <<>>) =>
        /\ medianPathTimes = computeMedians(C19_Sequential.deltas)
        /\ usualPaths = computeUsualPaths(C19_Sequential.paths)
        /\ usualDestinations = computeUsualDestinations(C19_Sequential.dests)

\* two vehicles took different routes once each: the usual path is the route
\* of the vehicle whose arrival was processed first
C19_Witness ==
    /\ mainPc = "reduced"
    /\ tasks /= <<>>
    /\ medianPathTimes = computeMedians(C19_Sequential.deltas)
    /\ usualDestinations = computeUsualDestinations(C19_Sequential.dests)
    /\ computeUsualPaths(C19_Sequential.paths)[<<AAA_1, Station("MTS")>>] = <<BBB_1, MTS_1>>
    /\ usualPaths[<<AAA_1, Station("MTS")>>] = <<BBB_2, MTS_1>>

\* the tasks started and not yet finished
C20_Started == { trn \in DOMAIN tasks : tasks[trn].status \notin {"queued", "finished"} }

\* the tasks whose history fetch is in flight
C20_InFlight == { trn \in DOMAIN tasks : tasks[trn].status = "fetching" }

\* C20: at every moment at most MAX_CONCURRENT_REQUESTS tasks are started and
\* not finished, hence at most that many fetches are in flight; when every
\* fetch succeeds, every vehicle's task eventually finishes.
C20_BoundedParallelism ==
    /\ [](/\ Cardinality(C20_Started) <= MAX_CONCURRENT_REQUESTS
          /\ Cardinality(C20_InFlight) <= MAX_CONCURRENT_REQUESTS)
    /\ <>(\A trn \in Vehicles : tasks[trn].status = "finished")

C20_Witness ==
    /\ tasks /= <<>>
    /\ Cardinality(C20_InFlight) = MAX_CONCURRENT_REQUESTS
    /\ \E trn \in DOMAIN tasks : tasks[trn].status = "queued"
    /\ \A trn \in C20_InFlight : tasks[trn].latestTimestamp = 0

\* a step of the task of vehicle trn
C21_Step(trn) == tasks'[trn] /= tasks[trn]

\* the entry the task handles in this step is the last one of its page
C21_AtLastEntry(trn) == tasks[trn].next = Len(tasks[trn].extract)

\* what one step of the pagination loop of vehicle trn may do
C21_Pagination(trn) ==
    /\ tasks[trn].status = "queued" =>
          /\ tasks'[trn].status = "fetching"
          /\ tasks'[trn].from = 1
    /\ tasks[trn].status = "fetching" =>
          LET page == HistoryPage(trn, tasks[trn].from, MAX_HISTORY_REQUEST_LIMIT)
          IN  IF page = <<>>
              THEN tasks'[trn].status = "finished"
              ELSE /\ tasks'[trn].status = "processing"
                   /\ tasks'[trn].extract = page
                   /\ tasks'[trn].next = 1
    /\ (tasks[trn].status = "processing" /\ ~C21_AtLastEntry(trn)) =>
          /\ tasks'[trn].status = "processing"
          /\ tasks'[trn].next = tasks[trn].next + 1
          /\ tasks'[trn].from = tasks[trn].from
    /\ (tasks[trn].status = "processing" /\ C21_AtLastEntry(trn)) =>
          IF Len(tasks[trn].extract) < MAX_HISTORY_REQUEST_LIMIT
          THEN tasks'[trn].status = "finished"
          ELSE /\ tasks'[trn].status = "fetching"
               /\ tasks'[trn].from = Last(tasks[trn].extract).date + 1
    /\ tasks[trn].status /= "finished"

\* C21: a vehicle's next page is requested only in the step that handles the
\* last entry of a full page, with the cursor one millisecond after that entry;
\* the task ends at the first empty or short page and requests nothing more.
C21_PagesInOrder ==
    [][\A trn \in Vehicles : C21_Step(trn) => C21_Pagination(trn)]_vars

\* a task asks for its second page
C21_Witness ==
    /\ tasks /= <<>>
    /\ \E trn \in DOMAIN tasks :
          /\ tasks[trn].status = "fetching"
          /\ Len(tasks[trn].extract) = MAX_HISTORY_REQUEST_LIMIT
          /\ tasks[trn].from = Last(tasks[trn].extract).date + 1
          /\ tasks[trn].from > 1

\* a fetch of vehicle trn fails after at least one of its pages was processed
C22_FailsAfterPages(trn) ==
    /\ tasks[trn].status = "fetching"
    /\ tasks[trn].latestTimestamp > 0
    /\ tasks'[trn].status = "failed"

\* C22: when a page fetch of a vehicle fails after earlier pages of it were
\* processed, only that vehicle's task stops: the other tasks and the samples
\* accumulated so far are kept and the run goes on towards the reduction.
C22_PartialFailureTolerated ==
    [][\A trn \in Vehicles :
          C22_FailsAfterPages(trn) =>
              /\ \A other \in Vehicles \ {trn} : tasks'[other] = tasks[other]
              /\ accumulators' = accumulators
              /\ mainPc' = "training"]_vars

\* the run was aborted by a failed fetch after samples were accumulated, and
\* no model was reduced from them
C22_Aborted ==
    /\ mainPc = "aborted"
    /\ \E trn \in DOMAIN tasks :
          tasks[trn].status = "failed" /\ tasks[trn].latestTimestamp > 0
    /\ allTimeDeltas /= EmptyMap
    /\ pathFrequencyMatrix /= EmptyMap
    /\ medianPathTimes = EmptyMap
    /\ usualPaths = EmptyMap

\* the entry the task of vehicle trn handles next
C23_Entry(trn) == tasks[trn].extract[tasks[trn].next]

\* the task of vehicle trn handles an entry that does not reconcile
C23_Fails(trn) ==
    /\ tasks[trn].status = "processing"
    /\ ~Reconciled(C23_Entry(trn))
    /\ tasks'[trn] /= tasks[trn]

\* C23: when the reconciliation of an entry fails, the vehicle's journey becomes
\* empty, the accumulators are unchanged, no sample is recorded for the entry,
\* and the task goes on with the next entry of the same page, which starts a
\* new journey.
C23_ReconcileFailureSkipped ==
    [][\A trn \in Vehicles :
          /\ C23_Fails(trn) =>
                /\ tasks'[trn].currentJourney = <<>>
                /\ accumulators' = accumulators
                /\ addedDeltas' = <<>> /\ addedPaths' = <<>> /\ addedDestinations' = <<>>
                /\ tasks[trn].next < Len(tasks[trn].extract) =>
                      /\ tasks'[trn].status = "processing"
                      /\ tasks'[trn].extract = tasks[trn].extract
                      /\ tasks'[trn].next = tasks[trn].next + 1
          /\ ( /\ tasks[trn].status = "processing"
               /\ tasks[trn].next > 1
               /\ ~Reconciled(tasks[trn].extract[tasks[trn].next - 1])
               /\ Reconciled(C23_Entry(trn))
               /\ tasks'[trn] /= tasks[trn] ) =>
                tasks'[trn].currentJourney = <<C23_Entry(trn)>>]_vars

\* an entry in the middle of a page did not reconcile while the journey had two
\* entries and samples were accumulated; the next entry of the page was handled
C23_Witness ==
    /\ tasks /= <<>>
    /\ \E trn \in DOMAIN tasks :
          /\ tasks[trn].extract /= <<>>
          /\ ~Reconciled(tasks[trn].extract[1])
          /\ tasks[trn].currentJourney = <<tasks[trn].extract[2]>>
    /\ allTimeDeltas /= EmptyMap

-----------------------------------------------------------------------------
(* Properties of the persisted models *)

C24_RoundTripped == returned /= <<>> /\ call.fn = "roundTrip"

\* C24: for each of the three model types and every model value,
\* fromJSON(toJSON(model)) returns a mapping with the keys and values of model.
C24_RoundTrip ==
    C24_RoundTripped =>
        /\ returned[1].ok
        /\ DOMAIN returned[1].value = DOMAIN call.model
        /\ \A k \in DOMAIN call.model : returned[1].value[k] = call.model[k]

\* a model of two levels with two first-level keys of two entries each
C24_Witness ==
    /\ C24_RoundTripped
    /\ call.type = "UsualDestinations"
    /\ DOMAIN call.model = {AAA_1, BBB_1} \X {AAA_1, BBB_1}
    /\ call.model[<<AAA_1, BBB_1>>] /= call.model[<<BBB_1, AAA_1>>]
    /\ returned[1] = Returns(call.model)

C25_Loaded == returned /= <<>> /\ call.fn = "fromJSON"

\* the root is null, not an object, or an array
C25_NotRecord(json) == json.type /= "object"

\* a value of the wrong kind somewhere in a document of the type
C25_Malformed(type, json) ==
    \/ C25_NotRecord(json)
    \/ /\ type = "MedianTimeDeltas"
       /\ \E k \in DOMAIN json.fields : json.fields[k].type /= "number"
    \/ /\ type /= "MedianTimeDeltas"
       /\ \E outer \in DOMAIN json.fields :
             \/ C25_NotRecord(json.fields[outer])
             \/ \E inner \in DOMAIN json.fields[outer].fields :
                   json.fields[outer].fields[inner].type /= "string"

\* C25: fromJSON of a malformed document fails and returns no model, not even
\* one filled from the well-formed entries.
C25_AllOrNothing ==
    (C25_Loaded /\ C25_Malformed(call.type, call.json)) =>
        /\ ~returned[1].ok
        /\ "value" \notin DOMAIN returned[1]

\* a document with one well-formed first-level entry and one that is null
C25_Witness ==
    /\ C25_Loaded
    /\ call.type = "UsualPaths"
    /\ call.json.type = "object"
    /\ DOMAIN call.json.fields = {AAA_1, BBB_1}
    /\ call.json.fields[AAA_1] = JObject([k \in {MTS_1} |-> JString(<<BBB_1, MTS_1>>)])
    /\ call.json.fields[BBB_1] = JNull
    /\ returned[1] = Throws

-----------------------------------------------------------------------------
(* Properties of training followed by prediction *)

\* the locations of the journey after the first one
C26_Following == [i \in 1..(Len(history[1]) - 1) |-> locationCode(history[1][i + 1])]

\* the models trained from the journey reproduce it
C26_Trained ==
    /\ <<locationCode(history[1][1]), args.destination[1]>> \in DOMAIN usualPaths
    /\ usualPaths[<<locationCode(history[1][1]), args.destination[1]>>] = C26_Following
    /\ \A n \in 1..Len(C26_Following) :
          LET k == key(history[1][1]) \o SubSeq(C26_Following, 1, n)
          IN  /\ k \in DOMAIN medianPathTimes
              /\ medianPathTimes[k] = history[1][n + 1].date - history[1][1].date

\* the prediction is the journey: each following location at its observed time
C26_Predicted ==
    /\ outcome = "returned"
    /\ result = [i \in 1..Len(C26_Following) |->
                    [locationCode |-> C26_Following[i], time |-> history[1][i + 1].date]]

C26_Reproduces ==
    /\ mainPc = "reduced" => C26_Trained
    /\ (mainPc = "reduced" /\ pc = "done") => C26_Predicted

\* the timestamps of the journey increase strictly
C26_Increasing == \A i \in 1..(Len(history[1]) - 1) : history[1][i].date < history[1][i + 1].date

\* the last arrival is at most the prediction window after the first observation
C26_InWindow == Last(history[1]).date - history[1][1].date <= PREDICTION_WINDOW

\* C26 as stated: for every journey along the chain, the trained models and the
\* prediction from its first observation reproduce the journey.
C26_ReproducesAnyJourney == history /= <<>> /\ tasks = <<>> => C26_Reproduces

\* C26: for a journey along the chain with strictly increasing timestamps, the
\* trained usual path and median deltas reproduce it; when it also ends within
\* the prediction window, so does the prediction from its first observation.
C26_ReproducesJourney ==
    (history /= <<>> /\ tasks = <<>> /\ C26_Increasing) =>
        /\ mainPc = "reduced" => C26_Trained
        /\ (mainPc = "reduced" /\ pc = "done" /\ C26_InWindow) => C26_Predicted

\* four stops, an arrival every five minutes: the prediction was made
C26_Witness ==
    /\ history /= <<>>
    /\ tasks = <<>>
    /\ Len(history[1]) = 4
    /\ \A i \in 1..3 : history[1][i + 1].date = history[1][i].date + 5 * Minute
    /\ pc = "done"
    /\ result = << [locationCode |-> BBB_1, time |-> NineOClock + 5 * Minute],
                   [locationCode |-> CCC_1, time |-> NineOClock + 10 * Minute],
                   [locationCode |-> MTS_1, time |-> NineOClock + 15 * Minute] >>
    /\ usualPaths[<<AAA_1, Station("MTS")>>] = <<BBB_1, CCC_1, MTS_1>>
    /\ medianPathTimes[<<"Departed", AAA_1, BBB_1>>] = 5 * Minute

-----------------------------------------------------------------------------
(* Properties of the fallback lookup *)

\* the key looked up first for the next leg
C27_FirstKey == currentStateKey \o pathed \o <<path[idx]>>

\* the key of the fallback level of the i-th pathed location
C27_LevelKey(i) ==
    <<"Arrived", pathed[i]>> \o SubSeq(pathed, i + 1, Len(pathed)) \o <<path[idx]>>

\* the fallback levels whose key is present
C27_Hits == { i \in 1..Len(pathed) : C27_LevelKey(i) \in DOMAIN medianPathTimes }

\* the level of the most recent pathed location among them
C27_MostRecent == CHOOSE i \in C27_Hits : \A other \in C27_Hits : other <= i

C27_Missing == Walking /\ C27_FirstKey \notin DOMAIN medianPathTimes

\* C27: when the first key of a leg is absent, the delta of the leg is the one
\* under the key of the most recent pathed location whose key is present; when
\* no level has a key, the call returns the predictions made so far and the
\* next location is not emitted.
C27_FallbackMostRecentFirst ==
    [][C27_Missing =>
          IF C27_Hits = {}
          THEN /\ pc' = "done"
               /\ outcome' = "returned"
               /\ predictions' = predictions
               /\ result' = C9_Upto(Len(stack)) \o predictions
          ELSE LET time == Clamp(initialState.date + bufferTime
                                 + medianPathTimes[C27_LevelKey(C27_MostRecent)])
               IN  IF ExceedsWindow(time)
                   THEN pc' = "done" /\ predictions' = predictions
                   ELSE /\ pc' = "walk"
                        /\ predictions' =
                              Append(predictions, [locationCode |-> path[idx], time |-> time])
                        /\ currentStateKey' = <<"Arrived", pathed[C27_MostRecent]>>]_vars

\* the third leg was predicted from the key of the second pathed location while
\* the key of the first one was present too
C27_Witness ==
    /\ pc = "walk"
    /\ Len(predictions) = 3
    /\ {<<"Arrived", BBB_1, CCC_1, MTS_1>>, <<"Arrived", CCC_1, MTS_1>>} \subseteq DOMAIN medianPathTimes
    /\ <<"Departed", AAA_1, BBB_1, CCC_1, MTS_1>> \notin DOMAIN medianPathTimes
    /\ predictions[3] = [locationCode |-> MTS_1, time |-> TenOClock + 6 * Minute]

-----------------------------------------------------------------------------
(* Properties of the leg-chaining recursion *)

\* a call chains the next leg
C28_Chains == pc = "walk" /\ pc' = "call"

\* a call has walked its path and cannot chain because of the bound on the depth
C28_AtBound == pc = "walk" /\ idx > Len(path) /\ Len(stack) >= MaxDepth

\* C28: with positive median deltas every chained call starts from a strictly
\* later time than the call that chained it, the bound on the depth is never
\* what stops the chain, and the top-level call ends.
C28_Terminates ==
    /\ [][C28_Chains => initialState'.date > initialState.date]_vars
    /\ [](~C28_AtBound)
    /\ <>(pc = "done")

\* the top-level call returned after two chained calls, the last one stopped by
\* the prediction window
C28_Witness ==
    /\ pc = "done"
    /\ outcome = "returned"
    /\ Len(stack) = 2
    /\ Len(result) >= 3
    /\ \A k \in DOMAIN medianPathTimes : medianPathTimes[k] > 0
    /\ medianPathTimes /= EmptyMap

-----------------------------------------------------------------------------
(* Properties of the Arrived analysis *)

\* an entry that stays in the journey as its newest entry, with state Arrived
C29_Arrived ==
    /\ Handled
    /\ currentJourney /= <<>>
    /\ Last(currentJourney) = fullState[1]
    /\ fullState[1].state = "Arrived"
    /\ \/ prevJourney = <<>>
       \/ /\ fullState[1].date > Last(prevJourney).date
          /\ key(fullState[1]) /= key(Last(prevJourney))

\* the locations of the entries after entry i that differ from the location of
\* the entry before them
C29_After(i) ==
    LET moved == { j \in (i + 1)..Len(currentJourney) :
                      locationCode(currentJourney[j]) /= locationCode(currentJourney[j - 1]) }
        nth[k \in 0..Cardinality(moved)] ==
            IF k = 0 THEN i
            ELSE CHOOSE j \in moved : j > nth[k - 1] /\ \A m \in moved : m > nth[k - 1] => j <= m
    IN  [k \in 1..Cardinality(moved) |-> locationCode(currentJourney[nth[k]])]

\* the path key of entry i: the locations after its own, up to and including
\* the newest location
C29_PathKey(i) ==
    IF C29_After(i) = <<>> THEN <<locationCode(fullState[1])>> ELSE C29_After(i)

\* the earlier entries that are not at the newest location, in order
C29_Elsewhere ==
    SelectSeq([i \in 1..(Len(currentJourney) - 1) |-> i],
              LAMBDA i : locationCode(currentJourney[i]) /= locationCode(fullState[1]))

\* C29: on an accepted Arrived entry the path key of every earlier entry `from`
\* is the collapsed sequence of the journey's locations after the location of
\* `from`, up to and including the newest location; a path-frequency sample
\* keyed (from.location, newest.station, pathKey) is recorded exactly for the
\* entries whose location differs from the newest location; the time-delta
\* sample is recorded for every earlier entry, those at the newest location
\* included.
C29_PathSamples ==
    C29_Arrived =>
        /\ addedPaths =
              [k \in 1..Len(C29_Elsewhere) |->
                  << locationCode(currentJourney[C29_Elsewhere[k]]),
                     fullState[1].stationCode,
                     C29_PathKey(C29_Elsewhere[k]) >>]
        /\ \A k \in 1..Len(C29_Elsewhere) :
              /\ C29_After(C29_Elsewhere[k]) /= <<>>
              /\ Last(C29_After(C29_Elsewhere[k])) = locationCode(fullState[1])
        /\ addedDeltas =
              [i \in 1..(Len(currentJourney) - 1) |->
                  << key(currentJourney[i]) \o C29_PathKey(i),
                     fullState[1].date - currentJourney[i].date >>]

\* an Arrived entry with one earlier entry at another location and one at its
\* own location: one path sample, two time-delta samples
C29_Witness ==
    /\ C29_Arrived
    /\ Len(currentJourney) = 3
    /\ locationCode(currentJourney[1]) /= locationCode(fullState[1])
    /\ locationCode(currentJourney[2]) = locationCode(fullState[1])
    /\ Len(addedPaths) = 1
    /\ Len(addedDeltas) = 2

-----------------------------------------------------------------------------
(* Properties of the terminus detection *)

\* the entry just handled took the terminus branch (lines 131-147)
C30_Terminus == Handled /\ Terminus(prevJourney, fullState[1])

\* C30: at a terminus detection the destination-frequency samples recorded are
\* exactly one per entry of the journey as it stood before the new entry, with
\* currentLocation the location of that entry; none has the location of the
\* new entry as currentLocation on account of the new entry itself.
C30_OnePerEarlierEntry ==
    C30_Terminus =>
        addedDestinations =
            [j \in 1..Len(prevJourney) |->
                << locationCode(prevJourney[1]), locationCode(prevJourney[j]),
                   locationCode(Last(prevJourney)) >>]

\* a terminus detection whose last sample has the location of the new entry as
\* currentLocation, although no earlier entry of the journey is at that location
C30_OwnLocationSampled ==
    /\ C30_Terminus
    /\ Len(addedDestinations) = Len(prevJourney) + 1
    /\ Last(addedDestinations) =
          << locationCode(prevJourney[1]), locationCode(fullState[1]),
             locationCode(Last(prevJourney)) >>
    /\ \A j \in 1..Len(prevJourney) :
          locationCode(prevJourney[j]) /= locationCode(fullState[1])

-----------------------------------------------------------------------------
(* Properties of the duplicate check *)

\* the entry just handled is later than the journey's last entry and at its location
C31_SameLocation ==
    /\ Handled
    /\ prevJourney /= <<>>
    /\ fullState[1].date > Last(prevJourney).date
    /\ locationCode(fullState[1]) = locationCode(Last(prevJourney))

\* C31: a later entry with the state and the location of the journey's last
\* entry is dropped: the journey, the date of its last entry included, is
\* unchanged and no sample is recorded; a later entry at the same location with
\* another state is appended as the new last entry.
C31_DuplicateDropped ==
    C31_SameLocation =>
        IF fullState[1].state = Last(prevJourney).state
        THEN currentJourney = prevJourney /\ NoSampleAdded
        ELSE currentJourney = Append(prevJourney, fullState[1])

\* an Arrived duplicate of the last of two entries, which an analysis would
\* have sampled against the first
C31_Witness ==
    /\ C31_SameLocation
    /\ fullState[1].state = "Arrived"
    /\ Last(prevJourney).state = "Arrived"
    /\ Len(prevJourney) >= 2
    /\ currentJourney = prevJourney
    /\ Last(currentJourney).date < fullState[1].date

-----------------------------------------------------------------------------
(* Properties of the timetable match *)

\* the top-level call had no explicit destination and is past its resolution
C32_Case == C7_TopEnded /\ args.destination = <<>> /\ timetable /= <<>>

\* the scheduled time of an entry: its arrival time for an Approaching or
\* Arrived state (the departure time where the entry has no arrival time),
\* else its departure time
C32_Scheduled(entry) ==
    IF args.initialState.state \in {"Approaching", "Arrived"} /\ entry.arrivalTime /= <<>>
    THEN entry.arrivalTime[1]
    ELSE entry.departureTime[1]

C32_Diff(entry) ==
    Abs(C32_Scheduled(entry) - toSecondsSinceMidnight(args.initialState.date))

\* the entries with a departure time, at the current location, less than 15
\* minutes from the time of day of the observation
C32_Acceptable ==
    { i \in DOMAIN timetable[1] :
        /\ timetable[1][i].departureTime /= <<>>
        /\ locationsMatch(timetable[1][i].location, C7_Location)
        /\ C32_Diff(timetable[1][i]) < 15 * 60 }

\* the earliest of the acceptable entries with the smallest difference
C32_Nearest ==
    CHOOSE i \in C32_Acceptable :
        \A j \in C32_Acceptable :
            \/ C32_Diff(timetable[1][i]) < C32_Diff(timetable[1][j])
            \/ C32_Diff(timetable[1][i]) = C32_Diff(timetable[1][j]) /\ i <= j

C32_Station(stationCode) ==
    CASE stationCode = "MTN" -> "MTS"
      [] stationCode = "MTE" -> "MTW"
      [] OTHER -> stationCode

\* C32: with no explicit destination a timetable entry supplies the destination
\* only if it is at the current location and its scheduled time (arrival for
\* Approaching and Arrived, else departure) is strictly less than 15 minutes
\* from the observation's time of day; the acceptable entry with the smallest
\* difference is chosen, the earliest on equal differences, with MTN and MTE
\* turned into MTS and MTW.
C32_NearestEntry ==
    C32_Case =>
        IF C32_Acceptable /= {}
        THEN C7_TopDestination =
                <<Station(C32_Station(timetable[1][C32_Nearest].destination.station))>>
        ELSE IF <<C7_Start, C7_Location>> \in DOMAIN usualDestinations
        THEN C7_TopDestination = <<usualDestinations[<<C7_Start, C7_Location>>]>>
        ELSE outcome = "threw" /\ error = "NoDestinationFound"

\* an Arrived state ten hours after the midnight arrival time of the only
\* entry takes that entry's destination, its departure time being close
C32_MidnightArrival ==
    /\ C32_Case
    /\ args.initialState.state = "Arrived"
    /\ Len(timetable[1]) = 1
    /\ timetable[1][1].arrivalTime = <<0>>
    /\ C32_Acceptable = {}
    /\ <<C7_Start, C7_Location>> \notin DOMAIN usualDestinations
    /\ C7_TopDestination = <<Station(timetable[1][1].destination.station)>>

-----------------------------------------------------------------------------
(* Properties of the shared accumulators *)

C33_NoCalls == [deltas |-> <<>>, paths |-> <<>>, dests |-> <<>>]

\* the add calls one vehicle makes for its stream, from entry i on
RECURSIVE C33_StreamCalls(_, _, _, _)
C33_StreamCalls(calls, journey, stream, i) ==
    IF i > Len(stream) THEN calls
    ELSE C33_StreamCalls(
            [deltas |-> calls.deltas \o EntryDeltas(journey, stream[i]),
             paths |-> calls.paths \o EntryPaths(journey, stream[i]),
             dests |-> calls.dests \o EntryDestinations(journey, stream[i])],
            EntryJourney(journey, stream[i]), stream, i + 1)

\* the add calls of all vehicles
RECURSIVE C33_AllCalls(_, _)
C33_AllCalls(calls, trn) ==
    IF trn > MaxVehicles THEN calls
    ELSE C33_AllCalls(C33_StreamCalls(calls, <<>>, history[trn], 1), trn + 1)

C33_Calls == C33_AllCalls(C33_NoCalls, 1)

\* the number of calls of a list made for a key
C33_Count(calls, k) == Cardinality({ i \in DOMAIN calls : calls[i] = k })

C33_DeltaCount(k) ==
    Cardinality({ i \in DOMAIN C33_Calls.deltas : C33_Calls.deltas[i][1] = k })

\* every call of the list is counted, and every count is the number of calls
C33_Counted(matrix, calls) ==
    /\ \A i \in DOMAIN calls :
          /\ <<calls[i][1], calls[i][2]>> \in DOMAIN matrix
          /\ \E e \in Range(matrix[<<calls[i][1], calls[i][2]>>]) : e.key = calls[i][3]
    /\ \A g \in DOMAIN matrix : \A e \in Range(matrix[g]) :
          e.freq = C33_Count(calls, <<g[1], g[2], e.key>>)

\* C33: whatever the interleaving of the tasks, at the end of training every
\* path count and every destination count is the number of addPath /
\* addDestinationFrequency calls all vehicles made for its key, and every
\* time-delta list has as many elements as addDelta calls made for its key.
C33_NoLostUpdate ==
    (tasks /= <<>> /\ AllFinished) =>
        /\ C33_Counted(pathFrequencyMatrix, C33_Calls.paths)
        /\ C33_Counted(destinationFrequencyMatrix, C33_Calls.dests)
        /\ \A i \in DOMAIN C33_Calls.deltas : C33_Calls.deltas[i][1] \in DOMAIN allTimeDeltas
        /\ \A k \in DOMAIN allTimeDeltas : Len(allTimeDeltas[k]) = C33_DeltaCount(k)

\* three vehicles made the same journey, their entries handled in turns: a
\* path, a destination and a time delta were each added by all three
C33_Witness ==
    /\ tasks /= <<>>
    /\ AllFinished
    /\ history[3] = StreamReturn
    /\ <<AAA_1, "BBB">> \in DOMAIN pathFrequencyMatrix
    /\ <<AAA_1, BBB_1>> \in DOMAIN destinationFrequencyMatrix
    /\ <<"Departed", AAA_1, BBB_1>> \in DOMAIN allTimeDeltas
    /\ \E e \in Range(pathFrequencyMatrix[<<AAA_1, "BBB">>]) : e.freq = 3
    /\ \E e \in Range(destinationFrequencyMatrix[<<AAA_1, BBB_1>>]) : e.freq = 3
    /\ Len(allTimeDeltas[<<"Departed", AAA_1, BBB_1>>]) = 3

-----------------------------------------------------------------------------
(* Properties of the per-vehicle journey *)

\* task trn handles an entry in this step
C34_Handles(trn) == tasks[trn].status = "processing" /\ tasks'[trn] /= tasks[trn]

\* the number of entries of its stream the task has handled so far
C34_Handled(trn) ==
    Cardinality({ i \in DOMAIN history[trn] :
                    history[trn][i].date < tasks[trn].extract[tasks[trn].next].date })

\* the journey after the first n entries of a stream, processed on their own
RECURSIVE C34_OwnJourney(_, _)
C34_OwnJourney(stream, n) ==
    IF n = 0 THEN <<>>
    ELSE EntryJourney(C34_OwnJourney(stream, n - 1), stream[n])

\* C34: the journey is private to a vehicle: whatever the interleaving, the
\* journey a task holds after each entry and the samples it adds for the entry
\* are those of the vehicle's own stream processed alone.
C34_JourneyPrivate ==
    [][\A trn \in Vehicles :
          C34_Handles(trn) =>
              LET n == C34_Handled(trn)
                  own == C34_OwnJourney(history[trn], n)
                  entry == history[trn][n + 1]
              IN  /\ tasks'[trn].currentJourney = EntryJourney(own, entry)
                  /\ addedDeltas' = EntryDeltas(own, entry)
                  /\ addedPaths' = EntryPaths(own, entry)
                  /\ addedDestinations' = EntryDestinations(own, entry)
                  /\ \A other \in Vehicles \ {trn} :
                        tasks'[other].currentJourney = tasks[other].currentJourney]_vars

\* a task has handled its last entry, a terminus detection, while another task
\* is between the first and the second entry of the same stream
C34_Witness ==
    /\ tasks /= <<>>
    /\ tasks[1].status = "finished"
    /\ addedDestinations /= <<>>
    /\ currentJourney = tasks[1].currentJourney
    /\ tasks[2].status = "processing"
    /\ tasks[2].next = 2
    /\ Len(tasks[2].currentJourney) = 1

-----------------------------------------------------------------------------
(* Invariants of the journey in progress *)

\* C35: the dates of the entries of the journey in progress increase strictly
\* from the first to the last, and every time delta added to the accumulator,
\* by the entry just handled or by any entry before it, is strictly positive.
C35_DatesIncrease ==
    /\ \A i \in 1..(Len(currentJourney) - 1) :
          currentJourney[i].date < currentJourney[i + 1].date
    /\ \A i \in DOMAIN addedDeltas : addedDeltas[i][2] > 0
    /\ \A k \in DOMAIN allTimeDeltas : \A i \in DOMAIN allTimeDeltas[k] :
          allTimeDeltas[k][i] > 0

\* a journey of three entries after four were offered, the last one recording
\* a time delta of more than one unit
C35_Witness ==
    /\ Handled
    /\ nEntries = MaxEntries
    /\ Len(currentJourney) = 3
    /\ fullState[1] = Last(currentJourney)
    /\ Len(addedDeltas) = 2
    /\ \E i \in DOMAIN addedDeltas : addedDeltas[i][2] >= 2

\* the location codes of the journey in progress, consecutive duplicates collapsed
C36_Locations == Collapse([i \in DOMAIN currentJourney |-> locationCode(currentJourney[i])])

\* C36: the journey in progress never revisits a location: no location code
\* appears twice among its location codes with consecutive duplicates collapsed.
C36_NoRevisit ==
    \A i \in DOMAIN C36_Locations : \A j \in DOMAIN C36_Locations :
        i /= j => C36_Locations[i] /= C36_Locations[j]

\* a train arrived back at the location its journey started from: the journey
\* now starts at the location it turned around at
C36_Witness ==
    /\ Handled
    /\ Len(prevJourney) >= 2
    /\ locationCode(prevJourney[1]) = locationCode(fullState[1])
    /\ locationCode(Last(prevJourney)) /= locationCode(fullState[1])
    /\ currentJourney = <<Last(prevJourney), fullState[1]>>

-----------------------------------------------------------------------------
(* Properties of the recorded paths *)

\* pathKey is a walk of the location graph from `from` to a location of the station
C37_Walk(from, stationCode, pathKey) ==
    /\ pathKey /= <<>>
    /\ isAdjacent(from, pathKey[1])
    /\ \A i \in 1..(Len(pathKey) - 1) : isAdjacent(pathKey[i], pathKey[i + 1])
    /\ Last(pathKey).station = stationCode

\* C37: every path-frequency sample (from, station, pathKey) the Trainer
\* records is a walk of the location graph: pathKey is not empty, its first
\* location is adjacent to `from`, every next location is adjacent to the one
\* before it and its last location belongs to the station; so is every entry
\* of the UsualPaths computed from the samples.
C37_PathsAreWalks ==
    /\ \A i \in DOMAIN addedPaths :
          C37_Walk(addedPaths[i][1], addedPaths[i][2], addedPaths[i][3])
    /\ \A g \in DOMAIN pathFrequencyMatrix : \A e \in Range(pathFrequencyMatrix[g]) :
          C37_Walk(g[1], g[2], e.key)
    /\ \A k \in DOMAIN computeUsualPaths(pathFrequencyMatrix) :
          C37_Walk(k[1], k[2].station, computeUsualPaths(pathFrequencyMatrix)[k])

\* an arrival recorded a path of two locations and a path of one location, and
\* the path of two locations is the usual path of its origin
C37_Witness ==
    /\ Handled
    /\ Len(addedPaths) >= 2
    /\ Len(addedPaths[1][3]) = 2
    /\ Len(addedPaths[2][3]) = 1
    /\ <<addedPaths[1][1], Station(addedPaths[1][2])>>
          \in DOMAIN computeUsualPaths(pathFrequencyMatrix)
    /\ computeUsualPaths(pathFrequencyMatrix)[<<addedPaths[1][1], Station(addedPaths[1][2])>>]
          = addedPaths[1][3]

-----------------------------------------------------------------------------
(* Properties of the trained models taken together *)

\* the top-level call, given no destination and no timetable, has taken its
\* destination from UsualDestinations
C38_FromUsualDestinations ==
    /\ mainPc = "reduced"
    /\ pc = "walk"
    /\ stack = <<>>
    /\ args.destination = <<>>
    /\ timetable = <<>>
    /\ <<locationCode(initialState), locationCode(initialState)>> \in DOMAIN usualDestinations
    /\ destination =
          <<usualDestinations[<<locationCode(initialState), locationCode(initialState)>>]>>

\* the key of the usual path to the station of the destination
C38_PathKey == <<locationCode(initialState), Station(destination[1].station)>>

\* C38: with models built by the Trainer from the same data, when the Predictor
\* takes its destination from UsualDestinations[startingLocation][currentLocation]
\* and the Trainer recorded a usual path from the current location to the
\* station of that destination, the Predictor walks that usual path and not
\* the shortest path of the graph.
C38_UsualPathWalked ==
    (C38_FromUsualDestinations /\ C38_PathKey \in DOMAIN usualPaths) =>
        path = usualPaths[C38_PathKey]

\* trained on a run through BBB_2, the Predictor takes MTS_1 as the destination
\* of a train at AAA_1 and walks the shortest path through BBB_1, although the
\* usual path from AAA_1 to MTS runs through BBB_2
C38_ShortestPathWalked ==
    /\ C38_FromUsualDestinations
    /\ locationCode(initialState) = AAA_1
    /\ destination = <<MTS_1>>
    /\ C38_PathKey \in DOMAIN usualPaths
    /\ usualPaths[C38_PathKey] = <<BBB_2, MTS_1>>
    /\ path = <<BBB_1, MTS_1>>

-----------------------------------------------------------------------------
(* Properties of shortestPath between matching locations *)

\* C39: shortestPath always returns, and never an empty sequence: the result
\* is not-found or a walk of at least one edge from `from` to a location that
\* matches `to`, a location other than `from` even when `from` matches `to`.
C39_NeverEmpty ==
    /\ (call /= <<>> /\ returned = <<>>) => ENABLED CallShortestPath
    /\ C14_Returned =>
          \/ returned[1] = <<>>
          \/ /\ returned[1][1] /= <<>>
             /\ C14_IsWalk(call.from, returned[1][1])
             /\ Last(returned[1][1]) /= call.from
             /\ locationsMatch(Last(returned[1][1]), call.to)

\* from MTS_1, which matches MTN_1 and has an edge to itself, to MTN_1: the
\* result is the walk to the other Monument location
C39_Witness ==
    /\ C14_Returned
    /\ call.from = MTS_1
    /\ call.to = MTN_1
    /\ MTS_1 \in Range(network[MTS_1])
    /\ returned[1] = <<<<AAA_1, MTN_1>>>>

-----------------------------------------------------------------------------
(* Properties of locationsMatch *)

C40_Matched == returned /= <<>> /\ call.fn = "locationsMatch"

\* C40: locationsMatch is an equivalence relation on location codes, with and
\* without platform numbers: reflexive, symmetric and transitive.
C40_Equivalence ==
    C40_Matched =>
        /\ returned[1].aa
        /\ returned[1].ab = returned[1].ba
        /\ (returned[1].ab /\ returned[1].bc) => returned[1].ac

\* C40, amended: locationsMatch is reflexive and symmetric, and transitive
\* through a location code that has a platform number.
C40_EquivalenceThroughPlatform ==
    C40_Matched =>
        /\ returned[1].aa
        /\ returned[1].ab = returned[1].ba
        /\ (call.b.platform /= NoPlatform /\ returned[1].ab /\ returned[1].bc)
              => returned[1].ac

\* MTS_1 matches MTN_1 and MTN_1 matches MTS, and MTS_1 matches MTS
C40_Witness ==
    /\ C40_Matched
    /\ call.a = MTS_1
    /\ call.b = MTN_1
    /\ call.c = Station("MTS")
    /\ returned[1].ab
    /\ returned[1].ba
    /\ returned[1].bc
    /\ returned[1].ac

====
